---- MODULE Spec2Model ----
(***************************************************************************)
(* Block-synchronisation core of the madara node.                          *)
(*                                                                         *)
(*   Spec          SyncController (crates/client/sync2/src/sync.rs): the   *)
(*                 run / run_inner select loop, driving a ForwardPipeline  *)
(*                 and a Probe.                                            *)
(*   SpecPipeline  PipelineController driving the stage steps of           *)
(*                 crates/client/sync2/src/apply_state.rs.                 *)
(*   SpecUnbounded SyncController on a clock that never stops, with fair   *)
(*                 scheduling.                                             *)
(*   SpecConvert   the wire/internal conversions of transactions and       *)
(*                 receipts (crates/client/p2p/src/handlers_impl/          *)
(*                 transactions.rs).                                       *)
(*   SpecReadStream  read_transactions_stream of the same file.            *)
(*   SpecTransactionsSync  transactions_sync of the same file.             *)
(*   SpecApplyState  the steps of ApplyStateSteps (apply_state.rs).        *)
(*   SpecServer    the child-process wrapper of the e2e harness            *)
(*                 (e2e/servers/lib.rs).                                   *)
(*   SpecSetup     Setup::l2_setup / l3_setup of the e2e harness           *)
(*                 (e2e/src/setup.rs).                                     *)
(*                                                                         *)
(* Option<T> values are sets with at most one element: None is {} and      *)
(* Some(x) is {x}.                                                         *)
(***************************************************************************)
EXTENDS Integers, Sequences, FiniteSets, TLC

\* ------------------------------------------------------------------ bounds
\* Highest block number of the modelled chain.
MaxBlock == 2
\* The clock stops advancing at this instant (seconds).
MaxTime == 2
\* Most blocks the forward pipeline holds in flight.
MaxOutstanding == 1
\* Highest starting block number of a pipeline.
MaxStartBlock == 1
\* Highest parallelization a pipeline controller is configured with.
MaxParallelization == 2
\* Highest batch_size a pipeline controller is configured with.
MaxBatchSize == 2
\* Highest target block number given to PipelineController::run.
MaxTarget == 4
\* The integer widths of the conversions, scaled down: the largest u32, u64, u128 and
\* Felt. Only their order matters.
U32Max == 2
U64Max == 4
U128Max == 6
FeltMax == 8
\* Most messages of a response stream, and highest transactions_count asked for.
MaxStreamLen == 3
MaxCount == 3
\* Most blocks of a block stream, and most transactions of a block.
MaxStreamBlocks == 2
MaxBlockTransactions == 2
\* Highest connection_attempts of a ServerConfig, most calls of Server::stop on a held
\* server, and most signals issued to its child.
MaxAttempts == 2
MaxStops == 2
MaxSignals == 2

\* const PROBE_WAIT_DELAY: Duration = Duration::from_secs(2)
PROBE_WAIT_DELAY == 2

\* ------------------------------------------------------------------ Option
None == {}
Some(x) == {x}
is_some(o) == o # {}
is_none(o) == o = {}
unwrap(o) == CHOOSE x \in o : TRUE

Blocks == 0..MaxBlock
OptBlocks == {None} \cup {Some(b) : b \in Blocks}

\* Probe::State: opaque to the controller, which only reads the highest known
\* block out of it.
ProbeStates == [highest : OptBlocks]
DefaultProbeState == [highest |-> None]

VARIABLES
    \* ---- SyncController fields
    forward_pipeline,       \* the driven ForwardPipeline
    probe,                  \* TRUE iff a probe is configured (Option<Arc<R>>)
    l1_head_recv,           \* the watch channel of the settlement-layer head
    stop_at_block_n,        \* Option<u64>
    current_l1_head,        \* Option<block_number>
    current_probe_future,   \* Option<the boxed probe call>
    probe_state,            \* R::State
    probe_wait_deadline,    \* Option<Instant>
    \* ---- position of run / run_inner
    pc,                     \* "run_inner" (top of the loop), "select", "done"
    iter,                   \* locals of the current run_inner iteration
    result,                 \* what run returned
    shutdown,               \* the graceful-shutdown signal has fired
    now,                    \* tokio clock, seconds
    \* ---- PipelineController
    pipeline_config,        \* the arguments given to apply_state_pipeline
    pipeline,               \* the controller: bounds, frontiers, ranges in flight
    pipeline_run,           \* Option<target_block_n of the run call in progress>
    pipeline_result,        \* what the last run call returned
    scheduled,              \* history: the ranges taken into flight, in order
    sequential_calls,       \* history: the sequential_step invocations, in order
    \* ---- p2p transactions handler and ApplyStateSteps
    conversion,             \* a value on its way through encoder and decoder
    read_stream,            \* a read_transactions_stream call
    sync_reply,             \* a transactions_sync call
    apply_state,            \* the ApplyStateSteps stage and its last call
    \* ---- e2e test harness
    server,                 \* a Server, its child process and the call in progress
    setup                   \* a Setup and the position of run_complete_setup

syncVars == <<forward_pipeline, probe, l1_head_recv, stop_at_block_n, current_l1_head,
              current_probe_future, probe_state, probe_wait_deadline, pc, iter,
              result, shutdown, now>>

plVars == <<pipeline_config, pipeline, pipeline_run, pipeline_result, scheduled,
            sequential_calls>>

p2pVars == <<conversion, read_stream, sync_reply, apply_state>>

e2eVars == <<server, setup>>

vars == <<syncVars, plVars, p2pVars, e2eVars>>

\* ------------------------------------------------------------ ForwardPipeline
next_input_block_n == forward_pipeline.next_input_block_n
input_batch_size == forward_pipeline.input_batch_size
is_empty == forward_pipeline.outstanding = 0

\* ------------------------------------------------------------ Probe
highest_known_block_from_state(state) == state.highest

\* ------------------------------------------------------------ target_height
u64_max[a \in Nat, b \in Nat] == IF a >= b THEN a ELSE b
u64_min[a \in Nat, b \in Nat] == IF a <= b THEN a ELSE b

\* f is u64::max or u64::min.
aggregate_options(a, b, f) ==
    CASE is_none(a) /\ is_none(b) -> None
      [] is_none(a) /\ is_some(b) -> Some(unwrap(b))
      [] is_some(a) /\ is_none(b) -> Some(unwrap(a))
      [] OTHER -> Some(f[unwrap(a), unwrap(b)])

\* Mutant: the probe height is merged with min instead of max.
TargetHeightMinProbe(l1_head, has_probe, pstate, stop_at) ==
    LET with_probe == IF has_probe
                      THEN aggregate_options(l1_head,
                               highest_known_block_from_state(pstate), u64_min)
                      ELSE l1_head
    IN aggregate_options(with_probe, stop_at, u64_min)

\* Mutant: the stop height is not applied.
TargetHeightNoStop(l1_head, has_probe, pstate, stop_at) ==
    IF has_probe
    THEN aggregate_options(l1_head, highest_known_block_from_state(pstate), u64_max)
    ELSE l1_head

TargetHeight(l1_head, has_probe, pstate, stop_at) ==
    LET head_block == l1_head
        with_probe == IF has_probe
                      THEN aggregate_options(head_block,
                               highest_known_block_from_state(pstate), u64_max)
                      ELSE head_block
    IN aggregate_options(with_probe, stop_at, u64_min)

target_height ==
    TargetHeight(current_l1_head, probe, probe_state, stop_at_block_n)

\* ------------------------------------------------------------ SyncController::new
\* Outside an iteration the locals hold nothing. `event` logs which branch of a select!
\* ended the previous pass and `returned` the state a successful probe call returned;
\* both are reset when the next iteration starts.
NoIter == [target_height |-> None, can_run_pipeline |-> FALSE, event |-> "none",
           returned |-> None]

After(event) == [NoIter EXCEPT !.event = event]

\* The stop heights a controller is created with.
StopHeights == {None, Some(1)}

\* Mutant: the constructor takes over the head the channel holds at that moment.
SyncInitBorrowingHead ==
    /\ forward_pipeline \in [next_input_block_n : 0..MaxStartBlock,
                             input_batch_size : {1},
                             outstanding : {0}]
    /\ probe \in BOOLEAN
    /\ l1_head_recv \in [value : OptBlocks, changed : BOOLEAN, closed : {FALSE}]
    /\ stop_at_block_n \in StopHeights
    /\ current_l1_head = l1_head_recv.value
    /\ current_probe_future = None
    /\ probe_state = DefaultProbeState
    /\ probe_wait_deadline = None
    /\ pc = "run_inner"
    /\ iter = NoIter
    /\ result = [ret |-> "none", by |-> "none"]
    /\ shutdown = FALSE
    /\ now = 0

\* SyncController::new: no L1 head, no probe call in flight, the default probe state
\* and no cooldown deadline; run has just been called.
SyncInit ==
    /\ forward_pipeline \in [next_input_block_n : 0..MaxStartBlock,
                             input_batch_size : {1},
                             outstanding : {0}]
    /\ probe \in BOOLEAN
    /\ l1_head_recv \in [value : OptBlocks, changed : BOOLEAN, closed : {FALSE}]
    /\ stop_at_block_n \in StopHeights
    /\ current_l1_head = None
    /\ current_probe_future = None
    /\ probe_state = DefaultProbeState
    /\ probe_wait_deadline = None
    /\ pc = "run_inner"
    /\ iter = NoIter
    /\ result = [ret |-> "none", by |-> "none"]
    /\ shutdown = FALSE
    /\ now = 0

\* ------------------------------------------------------------ PipelineController
\* A block range is half-open: [start, end).
Range(start, end) == [start |-> start, end |-> end]

\* Mutant: the two sizes are passed to the controller in the wrong order.
apply_state_pipeline_swapped(parallelization, batch_size, starting_block_n) ==
    [parallelization |-> batch_size,
     batch_size |-> parallelization,
     next_input_block_n |-> IF is_some(starting_block_n) THEN unwrap(starting_block_n) ELSE 0,
     frontier |-> IF is_some(starting_block_n) THEN unwrap(starting_block_n) ELSE 0,
     queue |-> <<>>,
     halted |-> FALSE]

\* PipelineController::new(ApplyStateSteps { backend, importer }, parallelization,
\* batch_size); starting_block_n is what ApplyStateSteps::starting_block_n reads from
\* the head status. Both frontiers start there, at block 0 when it is None.
apply_state_pipeline(parallelization, batch_size, starting_block_n) ==
    [parallelization |-> parallelization,
     batch_size |-> batch_size,
     next_input_block_n |-> IF is_some(starting_block_n) THEN unwrap(starting_block_n) ELSE 0,
     frontier |-> IF is_some(starting_block_n) THEN unwrap(starting_block_n) ELSE 0,
     queue |-> <<>>,
     halted |-> FALSE]

PipelineInit ==
    /\ pipeline_config \in [parallelization : 1..MaxParallelization,
                            batch_size : 1..MaxBatchSize,
                            starting_block_n : {None} \cup {Some(b) : b \in 0..MaxStartBlock}]
    /\ pipeline = apply_state_pipeline(pipeline_config.parallelization,
                                       pipeline_config.batch_size,
                                       pipeline_config.starting_block_n)
    /\ pipeline_run = None
    /\ pipeline_result = "none"
    /\ scheduled = <<>>
    /\ sequential_calls = <<>>

\* ---- the p2p handler and the apply-state stage before any call
NoConversion == [stage |-> "none", internal |-> None, panic |-> None, defect |-> "none",
                 wire |-> None, error |-> None, decoded |-> None]

NoReadStream == [stage |-> "none", stream |-> <<>>, res |-> <<>>, transactions_count |-> 0,
                 i |-> 0, vec |-> <<>>, ret |-> None]

NoSyncReply == [stage |-> "none", blocks |-> <<>>, stream |-> <<>>, els |-> <<>>,
                receiver_dropped |-> FALSE, out |-> <<>>, ret |-> None]

NoApplyState == [stage |-> "none", head_status |-> [global_trie |-> None],
                 block_range |-> [start |-> 0, end |-> 0], input |-> <<>>,
                 applied |-> None, ret |-> None]

\* ---- the e2e harness before Server::start_process and Setup::l2_setup / l3_setup
NoServer == [stage |-> "none", process |-> None, config |-> [connection_attempts |-> 0],
             attempts |-> 0, connects |-> 0, child |-> None, signals |-> <<>>,
             stops |-> 0, dropping |-> FALSE, started |-> None,
             last |-> [call |-> "none", ret |-> None], seen |-> None]

NoSetup == [stage |-> "none",
            config |-> [layer |-> "L2", wait_for_sync |-> TRUE, skip_existing_dbs |-> FALSE],
            anvil |-> None, localstack |-> None, mongo |-> None, pathfinder |-> None,
            orchestrator |-> None, sequencer |-> None, bootstrapper |-> None,
            join_set |-> {}, orchestrator_mode |-> "Setup", services |-> <<>>,
            started |-> <<>>, dropped |-> <<>>, phases |-> <<>>, stopped |-> <<>>,
            ret |-> None]

E2eAtRest ==
    /\ server = NoServer
    /\ setup = NoSetup

P2pAtRest ==
    /\ conversion = NoConversion
    /\ read_stream = NoReadStream
    /\ sync_reply = NoSyncReply
    /\ apply_state = NoApplyState

\* Specification Spec: the SyncController, beside a pipeline controller that is
\* constructed and left alone.
Init ==
    /\ SyncInit
    /\ P2pAtRest
    /\ E2eAtRest
    /\ pipeline_config = [parallelization |-> 1, batch_size |-> 1, starting_block_n |-> None]
    /\ pipeline = apply_state_pipeline(1, 1, None)
    /\ pipeline_run = None
    /\ pipeline_result = "none"
    /\ scheduled = <<>>
    /\ sequential_calls = <<>>

\* Specification SpecPipeline: the pipeline controller, beside a SyncController that is
\* constructed and never run.
InitPipeline ==
    /\ PipelineInit
    /\ P2pAtRest
    /\ E2eAtRest
    /\ forward_pipeline = [next_input_block_n |-> 0, input_batch_size |-> 1, outstanding |-> 0]
    /\ probe = FALSE
    /\ l1_head_recv = [value |-> None, changed |-> FALSE, closed |-> FALSE]
    /\ stop_at_block_n = None
    /\ current_l1_head = None
    /\ current_probe_future = None
    /\ probe_state = DefaultProbeState
    /\ probe_wait_deadline = None
    /\ pc = "run_inner"
    /\ iter = NoIter
    /\ result = [ret |-> "none", by |-> "none"]
    /\ shutdown = FALSE
    /\ now = 0

\* ---- the controller's bookkeeping
\* The sequential steps in progress: invoked, not yet returned.
applying == {i \in 1..Len(sequential_calls) : sequential_calls[i].outcome = "running"}

\* The parallel steps in flight.
parallel_in_flight == {i \in 1..Len(pipeline.queue) : pipeline.queue[i].step = "running"}

\* Mutant: the parallelization bound is not checked.
can_schedule_more_unbounded(target) ==
    /\ ~pipeline.halted
    /\ pipeline.next_input_block_n <= target

\* Mutant: a halted controller keeps scheduling.
can_schedule_more_when_halted(target) ==
    /\ Len(pipeline.queue) < pipeline.parallelization
    /\ pipeline.next_input_block_n <= target

\* A new range may be taken into flight: the controller is not halted, fewer than
\* `parallelization` ranges are queued and the target is not reached.
can_schedule_more(target) ==
    /\ ~pipeline.halted
    /\ Len(pipeline.queue) < pipeline.parallelization
    /\ pipeline.next_input_block_n <= target

\* Mutant: the next range is cut from the commit frontier instead of the input frontier.
next_range_from_frontier(target) ==
    Range(pipeline.frontier,
          u64_min[pipeline.next_input_block_n + pipeline.batch_size, target + 1])

\* The next range: at most batch_size blocks from next_input_block_n, up to the target.
next_range(target) ==
    Range(pipeline.next_input_block_n,
          u64_min[pipeline.next_input_block_n + pipeline.batch_size, target + 1])

\* Mutant: any range whose parallel step has finished may be committed next.
next_to_apply_any_ready ==
    {i \in 1..Len(pipeline.queue) : pipeline.queue[i].step = "ready"}

\* The queue position whose sequential step may start: the oldest range, once its
\* parallel step has finished.
next_to_apply ==
    {i \in {1} : Len(pipeline.queue) >= 1 /\ pipeline.queue[1].step = "ready"}

\* Mutant: a sequential step may start while another one is in progress.
can_apply_concurrently == ~pipeline.halted

\* A sequential step may start: none is in progress and the controller is not halted.
can_apply == ~pipeline.halted /\ applying = {}

\* Mutant: the frontier advances whatever the sequential step returned.
frontier_after_any(range, outcome) == range.end

\* The commit frontier after sequential_step of `range` returned `outcome`.
frontier_after(range, outcome) ==
    IF outcome = "Success" THEN range.end ELSE pipeline.frontier

RemoveAt(q, i) == [j \in 1..(Len(q) - 1) |-> IF j < i THEN q[j] ELSE q[j + 1]]

PipelineActive == is_some(pipeline_run)

\* ---- PipelineController::run(target_block_n)
PipelineRun(target) ==
    /\ ~PipelineActive
    /\ pipeline_result # "Err"
    /\ pipeline_run' = Some(target)
    /\ pipeline_result' = "none"
    /\ UNCHANGED <<pipeline_config, pipeline, scheduled, sequential_calls>>
    /\ UNCHANGED <<syncVars, p2pVars, e2eVars>>

\* A range is taken into flight and its parallel_step task starts.
ScheduleRange ==
    /\ PipelineActive
    /\ can_schedule_more(unwrap(pipeline_run))
    /\ LET range == next_range(unwrap(pipeline_run))
       IN /\ pipeline' = [pipeline EXCEPT
                             !.queue = Append(@, [range |-> range, step |-> "running"]),
                             !.next_input_block_n = range.end]
          /\ scheduled' = Append(scheduled, range)
    /\ UNCHANGED <<pipeline_config, pipeline_run, pipeline_result, sequential_calls>>
    /\ UNCHANGED <<syncVars, p2pVars, e2eVars>>

\* The parallel_step of some range in flight returns, in any order, and run sees it
\* (a halted controller no longer polls its queue).
ParallelStepReturned(i, ok) ==
    /\ PipelineActive
    /\ ~pipeline.halted
    /\ i \in parallel_in_flight
    /\ IF ok
       THEN /\ pipeline' = [pipeline EXCEPT !.queue[i].step = "ready"]
            /\ UNCHANGED <<pipeline_run, pipeline_result>>
       ELSE /\ pipeline' = [pipeline EXCEPT !.queue[i].step = "failed"]
            /\ pipeline_run' = None
            /\ pipeline_result' = "Err"
    /\ UNCHANGED <<pipeline_config, scheduled, sequential_calls>>
    /\ UNCHANGED <<syncVars, p2pVars, e2eVars>>

\* sequential_step is invoked on a range whose parallel step has finished.
SequentialStepInvoked ==
    /\ PipelineActive
    /\ can_apply
    /\ \E i \in next_to_apply :
          /\ sequential_calls' = Append(sequential_calls,
                 [range |-> pipeline.queue[i].range, outcome |-> "running"])
          /\ pipeline' = [pipeline EXCEPT !.queue = RemoveAt(@, i)]
    /\ UNCHANGED <<pipeline_config, pipeline_run, pipeline_result, scheduled>>
    /\ UNCHANGED <<syncVars, p2pVars, e2eVars>>

\* sequential_step returns Ok(Success), Ok(non-success outcome) or Err.
SequentialOutcomes == {"Success", "NonSuccess", "Err"}

\* Mutant: an error of sequential_step is logged and the run carries on with the next
\* range.
SequentialStepReturnedSkippingError(outcome) ==
    /\ PipelineActive
    /\ \E i \in applying :
          /\ sequential_calls' = [sequential_calls EXCEPT ![i].outcome = outcome]
          /\ pipeline' = [pipeline EXCEPT
                 !.frontier = frontier_after(sequential_calls[i].range, outcome),
                 !.halted = @ \/ outcome = "NonSuccess"]
    /\ CASE outcome = "Success" -> UNCHANGED <<pipeline_run, pipeline_result>>
         [] outcome = "NonSuccess" -> pipeline_run' = None /\ pipeline_result' = "Ok"
         [] outcome = "Err" -> UNCHANGED <<pipeline_run, pipeline_result>>
    /\ UNCHANGED <<pipeline_config, scheduled>>
    /\ UNCHANGED <<syncVars, p2pVars, e2eVars>>

SequentialStepReturned(outcome) ==
    /\ PipelineActive
    /\ \E i \in applying :
          /\ sequential_calls' = [sequential_calls EXCEPT ![i].outcome = outcome]
          /\ pipeline' = [pipeline EXCEPT
                 !.frontier = frontier_after(sequential_calls[i].range, outcome),
                 !.halted = @ \/ outcome = "NonSuccess"]
    /\ CASE outcome = "Success" -> UNCHANGED <<pipeline_run, pipeline_result>>
         [] outcome = "NonSuccess" -> pipeline_run' = None /\ pipeline_result' = "Ok"
         [] outcome = "Err" -> pipeline_run' = None /\ pipeline_result' = "Err"
    /\ UNCHANGED <<pipeline_config, scheduled>>
    /\ UNCHANGED <<syncVars, p2pVars, e2eVars>>

\* run returns Ok: the target is reached and nothing is in flight, or the controller
\* is halted.
PipelineRunDone ==
    /\ PipelineActive
    /\ applying = {}
    /\ \/ pipeline.halted
       \/ /\ pipeline.queue = <<>>
          /\ pipeline.next_input_block_n > unwrap(pipeline_run)
    /\ pipeline_run' = None
    /\ pipeline_result' = "Ok"
    /\ UNCHANGED <<pipeline_config, pipeline, scheduled, sequential_calls>>
    /\ UNCHANGED <<syncVars, p2pVars, e2eVars>>

NextPipeline ==
    \/ \E target \in 0..MaxTarget : PipelineRun(target)
    \/ ScheduleRange
    \/ \E i \in 1..MaxParallelization, ok \in BOOLEAN : ParallelStepReturned(i, ok)
    \/ SequentialStepInvoked
    \/ \E outcome \in SequentialOutcomes : SequentialStepReturned(outcome)
    \/ PipelineRunDone

SpecPipeline == InitPipeline /\ [][NextPipeline]_vars

\* ------------------------------------------------------------ run_inner
\* let can_run_pipeline = !is_empty() || target_height.is_some_and(|b| b >= next_input_block_n())
can_run_pipeline(th) ==
    ~is_empty \/ (is_some(th) /\ unwrap(th) >= next_input_block_n)

\* Mutant: the slot is not checked before a probe call is scheduled.
should_schedule_probe_unchecked_slot(can) ==
    probe /\ ~can

\* Mutant: a probe call is scheduled although the pipeline can run.
should_schedule_probe_ignoring_pipeline(can) ==
    probe /\ is_none(current_probe_future)

\* Mutant: a probe call is scheduled only while no call has completed yet.
should_schedule_probe_once(can) ==
    probe /\ is_none(current_probe_future) /\ ~can /\ is_none(probe_wait_deadline)

\* Mutant: a probe call is scheduled whether or not a probe is configured.
should_schedule_probe_without_probe(can) ==
    is_none(current_probe_future) /\ ~can

\* if self.current_probe_future.is_none() && !can_run_pipeline, under `if let Some(probe)`
should_schedule_probe(can) ==
    probe /\ is_none(current_probe_future) /\ ~can

\* target_height.filter(|_| can_run_pipeline): the argument of forward_pipeline.run,
\* None when the run branch of the select is disabled.
run_target(it) ==
    IF it.can_run_pipeline THEN it.target_height ELSE None

\* Mutant: every probe call is handed a fresh default state.
new_probe_future_default_state ==
    [stage |-> "sleep",
     delay |-> probe_wait_deadline,
     next_block_n |-> next_input_block_n,
     batch_size |-> input_batch_size,
     state |-> DefaultProbeState]

\* The boxed future: the call's arguments are captured when it is scheduled;
\* it first sleeps until `delay`, then awaits forward_probe.
new_probe_future ==
    [stage |-> "sleep",
     delay |-> probe_wait_deadline,
     next_block_n |-> next_input_block_n,
     batch_size |-> input_batch_size,
     state |-> probe_state]

\* Top of one iteration of the loop of run_inner, up to the select!.
RunInnerTop ==
    /\ pc = "run_inner"
    /\ LET th == target_height
           can == can_run_pipeline(th)
       IN /\ iter' = [NoIter EXCEPT !.target_height = th, !.can_run_pipeline = can]
          /\ current_probe_future' =
                 IF should_schedule_probe(can)
                 THEN Some(new_probe_future)
                 ELSE current_probe_future
    /\ pc' = "select"
    /\ UNCHANGED <<forward_pipeline, probe, l1_head_recv, stop_at_block_n,
                   current_l1_head, probe_state, probe_wait_deadline, result,
                   shutdown, now>>
    /\ UNCHANGED <<plVars, p2pVars, e2eVars>>

\* Mutant: the head only moves forward, a lower published head is not taken over.
L1ChangedKeepingHighest ==
    /\ pc = "select"
    /\ l1_head_recv.changed
    /\ current_l1_head' = aggregate_options(current_l1_head, l1_head_recv.value, u64_max)
    /\ l1_head_recv' = [l1_head_recv EXCEPT !.changed = FALSE]
    /\ pc' = "run_inner"
    /\ iter' = After("l1")
    /\ UNCHANGED <<forward_pipeline, probe, stop_at_block_n, current_probe_future,
                   probe_state, probe_wait_deadline, result, shutdown, now>>
    /\ UNCHANGED <<plVars, p2pVars, e2eVars>>

\* Mutant: handling an L1 head drops the probe call in flight.
L1ChangedDroppingProbe ==
    /\ pc = "select"
    /\ l1_head_recv.changed
    /\ current_l1_head' = l1_head_recv.value
    /\ l1_head_recv' = [l1_head_recv EXCEPT !.changed = FALSE]
    /\ current_probe_future' = None
    /\ pc' = "run_inner"
    /\ iter' = After("l1")
    /\ UNCHANGED <<forward_pipeline, probe, stop_at_block_n, probe_state,
                   probe_wait_deadline, result, shutdown, now>>
    /\ UNCHANGED <<plVars, p2pVars, e2eVars>>

\* Ok(()) = self.l1_head_recv.changed() => current_l1_head = borrow_and_update().clone()
L1Changed ==
    /\ pc = "select"
    /\ l1_head_recv.changed
    /\ current_l1_head' = l1_head_recv.value
    /\ l1_head_recv' = [l1_head_recv EXCEPT !.changed = FALSE]
    /\ pc' = "run_inner"
    /\ iter' = After("l1")
    /\ UNCHANGED <<forward_pipeline, probe, stop_at_block_n, current_probe_future,
                   probe_state, probe_wait_deadline, result, shutdown, now>>
    /\ UNCHANGED <<plVars, p2pVars, e2eVars>>

\* Mutant: the boxed future does not sleep.
deadline_ignored(delay) == TRUE

\* Polling the boxed probe future: sleep_until(deadline) is over, fut.await starts.
deadline_passed(delay) ==
    IF is_none(delay) THEN TRUE ELSE now >= unwrap(delay)

\* Mutant: the call's block number is read again when the cooldown sleep is over.
ProbeQueryStartRereading ==
    /\ pc = "select"
    /\ is_some(current_probe_future)
    /\ LET fut == unwrap(current_probe_future)
       IN /\ fut.stage = "sleep"
          /\ deadline_passed(fut.delay)
          /\ current_probe_future' = Some([fut EXCEPT !.stage = "query",
                                                      !.next_block_n = next_input_block_n])
    /\ UNCHANGED <<forward_pipeline, probe, l1_head_recv, stop_at_block_n,
                   current_l1_head, probe_state, probe_wait_deadline, pc, iter,
                   result, shutdown, now>>
    /\ UNCHANGED <<plVars, p2pVars, e2eVars>>

ProbeQueryStart ==
    /\ pc = "select"
    /\ is_some(current_probe_future)
    /\ LET fut == unwrap(current_probe_future)
       IN /\ fut.stage = "sleep"
          /\ deadline_passed(fut.delay)
          /\ current_probe_future' = Some([fut EXCEPT !.stage = "query"])
    /\ UNCHANGED <<forward_pipeline, probe, l1_head_recv, stop_at_block_n,
                   current_l1_head, probe_state, probe_wait_deadline, pc, iter,
                   result, shutdown, now>>
    /\ UNCHANGED <<plVars, p2pVars, e2eVars>>

\* Mutant: an error of the probe call is swallowed and the loop goes on.
ProbeCompletedMaskingError(res) ==
    /\ pc = "select"
    /\ is_some(current_probe_future)
    /\ unwrap(current_probe_future).stage = "query"
    /\ current_probe_future' = None
    /\ probe_wait_deadline' = Some(now + PROBE_WAIT_DELAY)
    /\ iter' = IF res.ok THEN [After("probe_ok") EXCEPT !.returned = Some(res.state)]
                      ELSE After("probe_err")
    /\ probe_state' = IF res.ok THEN res.state ELSE probe_state
    /\ pc' = "run_inner"
    /\ result' = result
    /\ UNCHANGED <<forward_pipeline, probe, l1_head_recv, stop_at_block_n,
                   current_l1_head, shutdown, now>>
    /\ UNCHANGED <<plVars, p2pVars, e2eVars>>

\* Some(res) = OptionFuture::from(self.current_probe_future.as_mut()) => { ... res? ... }
\* res is Ok(state) or Err.
ProbeCompleted(res) ==
    /\ pc = "select"
    /\ is_some(current_probe_future)
    /\ unwrap(current_probe_future).stage = "query"
    /\ current_probe_future' = None
    /\ probe_wait_deadline' = Some(now + PROBE_WAIT_DELAY)
    /\ iter' = IF res.ok THEN [After("probe_ok") EXCEPT !.returned = Some(res.state)]
                      ELSE After("probe_err")
    /\ IF res.ok
       THEN /\ probe_state' = res.state
            /\ pc' = "run_inner"
            /\ result' = result
       ELSE /\ probe_state' = probe_state
            /\ pc' = "done"
            /\ result' = [ret |-> "Err", by |-> "probe"]
    /\ UNCHANGED <<forward_pipeline, probe, l1_head_recv, stop_at_block_n,
                   current_l1_head, shutdown, now>>
    /\ UNCHANGED <<plVars, p2pVars, e2eVars>>

ProbeResults ==
    {[ok |-> TRUE, state |-> s] : s \in ProbeStates}
        \cup {[ok |-> FALSE, state |-> DefaultProbeState]}

\* ---- forward_pipeline.run(target), while it is awaited by the select!

\* Mutant: the pipeline branch waits for the probe call's cooldown sleep to end.
RunAwaitedAfterCooldown ==
    /\ pc = "select"
    /\ is_some(run_target(iter))
    /\ IF is_some(current_probe_future)
       THEN \/ unwrap(current_probe_future).stage = "query"
            \/ deadline_passed(unwrap(current_probe_future).delay)
       ELSE TRUE

RunAwaited ==
    pc = "select" /\ is_some(run_target(iter))

\* run takes the next block into flight, up to its target.
FpTakeInput ==
    /\ RunAwaited
    /\ next_input_block_n <= unwrap(run_target(iter))
    /\ forward_pipeline.outstanding < MaxOutstanding
    /\ forward_pipeline' = [forward_pipeline EXCEPT
                               !.next_input_block_n = @ + 1,
                               !.outstanding = @ + 1]
    /\ UNCHANGED <<probe, l1_head_recv, stop_at_block_n, current_l1_head,
                   current_probe_future, probe_state, probe_wait_deadline, pc, iter,
                   result, shutdown, now>>
    /\ UNCHANGED <<plVars, p2pVars, e2eVars>>

\* run commits one block in flight.
FpCommit ==
    /\ RunAwaited
    /\ forward_pipeline.outstanding > 0
    /\ forward_pipeline' = [forward_pipeline EXCEPT !.outstanding = @ - 1]
    /\ UNCHANGED <<probe, l1_head_recv, stop_at_block_n, current_l1_head,
                   current_probe_future, probe_state, probe_wait_deadline, pc, iter,
                   result, shutdown, now>>
    /\ UNCHANGED <<plVars, p2pVars, e2eVars>>

\* Mutant: the result of forward_pipeline.run is dropped instead of propagated.
FpRunReturnedIgnoringError(ok) ==
    /\ RunAwaited
    /\ iter' = After(IF ok THEN "run_ok" ELSE "run_err")
    /\ pc' = "run_inner"
    /\ result' = result
    /\ UNCHANGED <<forward_pipeline, probe, l1_head_recv, stop_at_block_n,
                   current_l1_head, current_probe_future, probe_state,
                   probe_wait_deadline, shutdown, now>>
    /\ UNCHANGED <<plVars, p2pVars, e2eVars>>

\* Some(res) = OptionFuture::from(... self.forward_pipeline.run(target)) => { res?; }
FpRunReturned(ok) ==
    /\ RunAwaited
    /\ iter' = After(IF ok THEN "run_ok" ELSE "run_err")
    /\ IF ok
       THEN pc' = "run_inner" /\ result' = result
       ELSE pc' = "done" /\ result' = [ret |-> "Err", by |-> "pipeline"]
    /\ UNCHANGED <<forward_pipeline, probe, l1_head_recv, stop_at_block_n,
                   current_l1_head, current_probe_future, probe_state,
                   probe_wait_deadline, shutdown, now>>
    /\ UNCHANGED <<plVars, p2pVars, e2eVars>>

\* Mutant: a closed channel disables the L1 branch even with an unseen head.
l1_branch_disabled_when_closed == l1_head_recv.closed

\* else => break Ok(()): every branch of the select! is disabled.
\* changed() yields Ok for an unseen version first, Err only once closed.
l1_branch_disabled == l1_head_recv.closed /\ ~l1_head_recv.changed

\* Mutant: the else branch takes the L1 head out of the controller on its way out.
SelectElseTakingHead ==
    /\ pc = "select"
    /\ l1_branch_disabled
    /\ is_none(current_probe_future)
    /\ is_none(run_target(iter))
    /\ pc' = "done"
    /\ iter' = After("else")
    /\ result' = [ret |-> "Ok", by |-> "run_inner"]
    /\ current_l1_head' = None
    /\ UNCHANGED <<forward_pipeline, probe, l1_head_recv, stop_at_block_n,
                   current_probe_future, probe_state, probe_wait_deadline, shutdown,
                   now>>
    /\ UNCHANGED <<plVars, p2pVars, e2eVars>>

\* Mutant: a closed L1 channel makes the run fail.
SelectElseFailing ==
    /\ pc = "select"
    /\ l1_branch_disabled
    /\ is_none(current_probe_future)
    /\ is_none(run_target(iter))
    /\ pc' = "done"
    /\ iter' = After("else")
    /\ result' = [ret |-> "Err", by |-> "run_inner"]
    /\ UNCHANGED <<forward_pipeline, probe, l1_head_recv, stop_at_block_n,
                   current_l1_head, current_probe_future, probe_state,
                   probe_wait_deadline, shutdown, now>>
    /\ UNCHANGED <<plVars, p2pVars, e2eVars>>

SelectElse ==
    /\ pc = "select"
    /\ l1_branch_disabled
    /\ is_none(current_probe_future)
    /\ is_none(run_target(iter))
    /\ pc' = "done"
    /\ iter' = After("else")
    /\ result' = [ret |-> "Ok", by |-> "run_inner"]
    /\ UNCHANGED <<forward_pipeline, probe, l1_head_recv, stop_at_block_n,
                   current_l1_head, current_probe_future, probe_state,
                   probe_wait_deadline, shutdown, now>>
    /\ UNCHANGED <<plVars, p2pVars, e2eVars>>

\* ------------------------------------------------------------ run

\* Mutant: the in-flight probe call is dropped together with the run_inner future.
StatusTickDroppingProbe ==
    /\ pc \in {"run_inner", "select"}
    /\ pc' = "run_inner"
    /\ iter' = After("tick")
    /\ current_probe_future' = None
    /\ UNCHANGED <<forward_pipeline, probe, l1_head_recv, stop_at_block_n,
                   current_l1_head, probe_state, probe_wait_deadline, result,
                   shutdown, now>>
    /\ UNCHANGED <<plVars, p2pVars, e2eVars>>

\* _ = interval.tick() => self.show_status(): the run_inner future of this pass of
\* the loop is dropped and a new one starts from the top.
StatusTick ==
    /\ pc \in {"run_inner", "select"}
    /\ pc' = "run_inner"
    /\ iter' = After("tick")
    /\ UNCHANGED <<forward_pipeline, probe, l1_head_recv, stop_at_block_n,
                   current_l1_head, current_probe_future, probe_state,
                   probe_wait_deadline, result, shutdown, now>>
    /\ UNCHANGED <<plVars, p2pVars, e2eVars>>

\* Mutant: shutdown is only honoured while no probe call is in flight.
GracefulShutdownWhenIdle ==
    /\ pc \in {"run_inner", "select"}
    /\ shutdown
    /\ is_none(current_probe_future)
    /\ pc' = "done"
    /\ iter' = After("shutdown")
    /\ result' = [ret |-> "Ok", by |-> "graceful_shutdown"]
    /\ UNCHANGED <<forward_pipeline, probe, l1_head_recv, stop_at_block_n,
                   current_l1_head, current_probe_future, probe_state,
                   probe_wait_deadline, shutdown, now>>
    /\ UNCHANGED <<plVars, p2pVars, e2eVars>>

\* _ = graceful_shutdown() => break Ok(())
GracefulShutdown ==
    /\ pc \in {"run_inner", "select"}
    /\ shutdown
    /\ pc' = "done"
    /\ iter' = After("shutdown")
    /\ result' = [ret |-> "Ok", by |-> "graceful_shutdown"]
    /\ UNCHANGED <<forward_pipeline, probe, l1_head_recv, stop_at_block_n,
                   current_l1_head, current_probe_future, probe_state,
                   probe_wait_deadline, shutdown, now>>
    /\ UNCHANGED <<plVars, p2pVars, e2eVars>>

\* pub async fn run(&mut self): the owner calls run again on a controller whose
\* previous run returned Ok from run_inner. The fields are those the previous run left.
RunAgain ==
    /\ pc = "done"
    /\ result = [ret |-> "Ok", by |-> "run_inner"]
    /\ pc' = "run_inner"
    /\ iter' = After("run_again")
    /\ result' = [ret |-> "none", by |-> "run_again"]
    /\ UNCHANGED <<forward_pipeline, probe, l1_head_recv, stop_at_block_n,
                   current_l1_head, current_probe_future, probe_state,
                   probe_wait_deadline, shutdown, now>>
    /\ UNCHANGED <<plVars, p2pVars, e2eVars>>

\* ------------------------------------------------------------ environment
Running == pc # "done"

\* The process receives the shutdown signal.
ShutdownSignal ==
    /\ Running
    /\ ~shutdown
    /\ shutdown' = TRUE
    /\ UNCHANGED <<forward_pipeline, probe, l1_head_recv, stop_at_block_n,
                   current_l1_head, current_probe_future, probe_state,
                   probe_wait_deadline, pc, iter, result, now>>
    /\ UNCHANGED <<plVars, p2pVars, e2eVars>>

\* The L1 head tracker publishes a head on the watch channel.
L1Send(v) ==
    /\ Running
    /\ ~l1_head_recv.closed
    /\ l1_head_recv' = [l1_head_recv EXCEPT !.value = v, !.changed = TRUE]
    /\ UNCHANGED <<forward_pipeline, probe, stop_at_block_n, current_l1_head,
                   current_probe_future, probe_state, probe_wait_deadline, pc, iter,
                   result, shutdown, now>>
    /\ UNCHANGED <<plVars, p2pVars, e2eVars>>

\* The sender of the watch channel is dropped.
L1Close ==
    /\ Running
    /\ ~l1_head_recv.closed
    /\ l1_head_recv' = [l1_head_recv EXCEPT !.closed = TRUE]
    /\ UNCHANGED <<forward_pipeline, probe, stop_at_block_n, current_l1_head,
                   current_probe_future, probe_state, probe_wait_deadline, pc, iter,
                   result, shutdown, now>>
    /\ UNCHANGED <<plVars, p2pVars, e2eVars>>

\* One second passes.
ClockTick ==
    /\ Running
    /\ now < MaxTime
    /\ now' = now + 1
    /\ UNCHANGED <<forward_pipeline, probe, l1_head_recv, stop_at_block_n,
                   current_l1_head, current_probe_future, probe_state,
                   probe_wait_deadline, pc, iter, result, shutdown>>
    /\ UNCHANGED <<plVars, p2pVars, e2eVars>>

Next ==
    \/ RunInnerTop
    \/ L1Changed
    \/ ProbeQueryStart
    \/ \E res \in ProbeResults : ProbeCompleted(res)
    \/ FpTakeInput
    \/ FpCommit
    \/ \E ok \in BOOLEAN : FpRunReturned(ok)
    \/ SelectElse
    \/ StatusTick
    \/ GracefulShutdown
    \/ RunAgain
    \/ ShutdownSignal
    \/ \E v \in OptBlocks : L1Send(v)
    \/ L1Close
    \/ ClockTick

Spec == Init /\ [][Next]_vars

\* ------------------------------------------------------------ unbounded runs
\* The same controller observed over an unbounded time span. Instants are only ever
\* compared with the clock, so the clock keeps a sliding origin: once it shows MaxTime,
\* a second passing moves every stored deadline one second closer instead.
earlier(deadline) ==
    IF is_none(deadline) THEN None
    ELSE Some(IF unwrap(deadline) > 0 THEN unwrap(deadline) - 1 ELSE 0)

ClockTickSliding ==
    /\ Running
    /\ IF now < MaxTime
       THEN /\ now' = now + 1
            /\ UNCHANGED <<probe_wait_deadline, current_probe_future>>
       ELSE /\ now' = now
            /\ probe_wait_deadline' = earlier(probe_wait_deadline)
            /\ current_probe_future' =
                   IF is_none(current_probe_future) THEN None
                   ELSE Some([unwrap(current_probe_future) EXCEPT !.delay = earlier(@)])
    /\ UNCHANGED <<forward_pipeline, probe, l1_head_recv, stop_at_block_n,
                   current_l1_head, probe_state, pc, iter, result, shutdown>>
    /\ UNCHANGED <<plVars, p2pVars, e2eVars>>

\* The heights the L1 channel and the probe report in these runs: none, or block 0.
LowHeights == {None, Some(0)}

LowProbeResults ==
    {res \in ProbeResults : res.state.highest \in LowHeights}

\* A controller with a probe and no stop height, created on a channel with nothing
\* unseen: until a height at or above next_input_block_n() is reported it is idle.
InitWithProbe ==
    /\ Init
    /\ probe
    /\ is_none(stop_at_block_n)
    /\ ~l1_head_recv.changed
    /\ is_none(l1_head_recv.value)

NextUnbounded ==
    \/ RunInnerTop
    \/ L1Changed
    \/ ProbeQueryStart
    \/ \E res \in LowProbeResults : ProbeCompleted(res)
    \/ FpTakeInput
    \/ FpCommit
    \/ \E ok \in BOOLEAN : FpRunReturned(ok)
    \/ SelectElse
    \/ StatusTick
    \/ GracefulShutdown
    \/ ShutdownSignal
    \/ \E v \in LowHeights : L1Send(v)
    \/ L1Close
    \/ ClockTickSliding

\* The runtime keeps polling: the synchronous top of an iteration runs to its select!,
\* time passes, and the probe future, polled again after every re-entry of the
\* select!, gets past its sleep and its query returns.
SpecUnbounded ==
    /\ InitWithProbe
    /\ [][NextUnbounded]_vars
    /\ WF_vars(RunInnerTop)
    /\ WF_vars(ClockTickSliding)
    /\ SF_vars(ProbeQueryStart)
    /\ SF_vars(\E res \in LowProbeResults : ProbeCompleted(res))

\* ====================================================================
\* Properties of SyncController (specification Spec)
\* ====================================================================
SetMax(S) == CHOOSE x \in S : \A y \in S : y <= x
SetMin(S) == CHOOSE x \in S : \A y \in S : x <= y

\* min(S, max(H, P)) with the absent terms dropped out of their min / max.
MinOfStopAndMax(H, P, S) ==
    LET heights == H \cup P
        highest == IF heights = {} THEN {} ELSE {SetMax(heights)}
        terms == highest \cup S
    IN IF terms = {} THEN {} ELSE {SetMin(terms)}

\* The probe-derived height, absent when no probe is configured.
ProbeHeight == IF probe THEN highest_known_block_from_state(probe_state) ELSE None

\* C1: target_height is min(S, max(H, P)) over the terms that are present, for
\* every combination of present / absent L1 head H, probe height P and stop height S,
\* and it is None exactly when all three are absent.
C1_TargetHeightIsMinOfStopAndMax ==
    /\ target_height = MinOfStopAndMax(current_l1_head, ProbeHeight, stop_at_block_n)
    /\ is_none(target_height) <=>
           (is_none(current_l1_head) /\ is_none(ProbeHeight) /\ is_none(stop_at_block_n))
    /\ TargetHeight(Some(100), TRUE, [highest |-> Some(80)], None) = Some(100)
    /\ TargetHeight(None, TRUE, [highest |-> Some(80)], Some(90)) = Some(80)
    /\ TargetHeight(None, TRUE, [highest |-> None], Some(50)) = Some(50)
    /\ TargetHeight(None, TRUE, [highest |-> None], None) = None

\* All three terms present, the probe above the L1 head and the stop height below it.
C1_Witness ==
    /\ probe
    /\ current_l1_head = Some(0)
    /\ probe_state.highest = Some(2)
    /\ stop_at_block_n = Some(1)
    /\ target_height = Some(1)

\* A step that puts a new probe call into the slot (not the in-flight call moving
\* from its cooldown sleep to its query).
IssuesProbeCall ==
    /\ is_some(current_probe_future')
    /\ current_probe_future' # current_probe_future
    /\ IF is_some(current_probe_future)
       THEN current_probe_future' #
                Some([unwrap(current_probe_future) EXCEPT !.stage = "query"])
       ELSE TRUE

\* A step that empties the slot.
ClearsProbeSlot ==
    is_some(current_probe_future) /\ is_none(current_probe_future')

\* C4: at most one probe call is outstanding: a call is put into the slot only when
\* the slot is empty, and the slot is emptied only by the completion of the call in it
\* (its query had started, and the cooldown deadline is set).
C4_SingleProbeInFlight ==
    [][/\ IssuesProbeCall => is_none(current_probe_future)
       /\ ClearsProbeSlot =>
              /\ unwrap(current_probe_future).stage = "query"
              /\ pc = "select"
              /\ probe_wait_deadline' = Some(now + PROBE_WAIT_DELAY)]_vars

\* A run_inner iteration starts with a probe call in flight whose query is running
\* and the pipeline unable to run: a second scheduling opportunity.
C4_Witness ==
    /\ pc = "run_inner"
    /\ is_some(current_probe_future)
    /\ unwrap(current_probe_future).stage = "query"
    /\ probe
    /\ ~can_run_pipeline(target_height)

\* The step from the top of a run_inner iteration to its select!.
IterationTopStep == pc = "run_inner" /\ pc' = "select"

\* C7: an iteration of run_inner schedules a new probe call iff a probe is configured,
\* none is in flight, the pipeline is empty and no target height at or above
\* next_input_block_n() exists.
C7_ProbeScheduledIffIdle ==
    [][IterationTopStep =>
          /\ (current_probe_future' # current_probe_future) <=>
                 /\ probe
                 /\ is_none(current_probe_future)
                 /\ is_empty
                 /\ ~(is_some(target_height) /\ unwrap(target_height) >= next_input_block_n)
          /\ (current_probe_future' # current_probe_future) =>
                 /\ is_some(current_probe_future')
                 /\ unwrap(current_probe_future').stage = "sleep"]_vars

\* A probe call was scheduled again after an earlier one completed, while a target
\* height exists that lies below next_input_block_n().
C7_Witness ==
    /\ pc = "select"
    /\ is_some(current_probe_future)
    /\ unwrap(current_probe_future).stage = "sleep"
    /\ is_some(unwrap(current_probe_future).delay)
    /\ is_some(iter.target_height)
    /\ ~iter.can_run_pipeline

\* C8: forward_pipeline.run is awaited by an iteration iff a target height is known and
\* (the pipeline is not empty or the target is >= next_input_block_n()); its argument is
\* the target height computed at the top of the iteration, which is still the target of
\* the current L1 head, probe state and stop height, hence never above stop_at_block_n.
C8_RunAwaitedArg ==
    RunAwaited =>
        /\ run_target(iter) = target_height
        /\ is_some(stop_at_block_n) =>
               unwrap(run_target(iter)) <= unwrap(stop_at_block_n)

C8_RunAwaitedIffCanRun ==
    /\ []C8_RunAwaitedArg
    /\ [][IterationTopStep =>
             (RunAwaited' <=>
                  /\ is_some(target_height)
                  /\ (~is_empty \/ unwrap(target_height) >= next_input_block_n))]_vars

\* run is awaited with the stop height as its argument although the L1 head is higher.
C8_Witness ==
    /\ RunAwaited
    /\ stop_at_block_n = Some(1)
    /\ current_l1_head = Some(2)
    /\ run_target(iter) = Some(1)
    /\ next_input_block_n = 1

\* run returned Ok from the else branch of the select! of run_inner.
CleanReturn == result = [ret |-> "Ok", by |-> "run_inner"]

\* C9 as stated: a clean return happens only with the target height absent, the
\* pipeline idle and no probe call outstanding.
C9_CleanReturnOnlyWithoutTarget ==
    CleanReturn =>
        /\ is_none(target_height)
        /\ is_empty
        /\ is_none(current_probe_future)

\* forward_pipeline.run cannot be awaited: no target height, or the pipeline is empty
\* and the target lies below next_input_block_n().
RunNotAwaitable ==
    IF is_none(target_height)
    THEN TRUE
    ELSE is_empty /\ unwrap(target_height) < next_input_block_n

NoBranchCanProgress ==
    /\ l1_head_recv.closed
    /\ ~l1_head_recv.changed
    /\ is_none(current_probe_future)
    /\ RunNotAwaitable

\* C9 (amended): a clean return happens exactly when no branch of the select! can make
\* progress: the L1 channel is closed with no unseen head, no probe call is outstanding
\* and forward_pipeline.run cannot be awaited. While the select! waits without a run
\* being awaited, the else branch is enabled in exactly these states, and then no other
\* branch is; while a run is awaited it is never enabled.
C9_CleanReturnIffNoBranchCanProgress ==
    /\ CleanReturn => NoBranchCanProgress
    /\ (pc = "select" /\ RunAwaited) => ~ENABLED SelectElse
    /\ (pc = "select" /\ ~RunAwaited) =>
           /\ (ENABLED SelectElse) <=> NoBranchCanProgress
           /\ (ENABLED SelectElse) =>
                  ~ENABLED (L1Changed \/ ProbeQueryStart \/ FpTakeInput \/ FpCommit
                            \/ (\E res \in ProbeResults : ProbeCompleted(res))
                            \/ (\E ok \in BOOLEAN : FpRunReturned(ok)))

\* A clean return with a target height that the pipeline has already passed.
C9_Witness ==
    /\ CleanReturn
    /\ is_some(target_height)
    /\ unwrap(target_height) < next_input_block_n

\* C10: once the shutdown signal has fired, run can return through the shutdown branch
\* at every scheduling point, whatever the state of the probe slot, the cooldown and the
\* pipeline; that return is Ok, never an error, and after it no probe call is scheduled
\* or advanced and the pipeline is not driven.
C10_ShutdownState ==
    /\ (shutdown /\ Running) => ENABLED GracefulShutdown
    /\ result.by = "graceful_shutdown" => (result.ret = "Ok" /\ pc = "done")

StatusTickStep == iter' # iter /\ iter'.event = "tick"

\* C11: a status tick leaves current_l1_head, probe_state, the probe slot (the call in
\* it is neither completed, cancelled nor re-issued), the cooldown deadline, the L1
\* channel and the pipeline as they were, and the run goes on: it does not return.
C11_StatusTickOnlyShowsStatus ==
    [][StatusTickStep =>
           /\ UNCHANGED <<current_l1_head, probe_state, current_probe_future,
                          probe_wait_deadline, forward_pipeline, l1_head_recv>>
           /\ pc' = "run_inner"
           /\ result' = result
           /\ result.ret = "none"]_vars

\* A tick fired while a probe query was running, a cooldown deadline was set and the
\* pipeline held outstanding work.
C11_Witness ==
    /\ pc = "run_inner"
    /\ iter.event = "tick"
    /\ is_some(current_probe_future)
    /\ unwrap(current_probe_future).stage = "query"
    /\ is_some(probe_wait_deadline)
    /\ ~is_empty

\* A step in which the probe branch of the select! received an error.
ProbeErrorStep == iter' # iter /\ iter'.event = "probe_err"

\* C12: when the in-flight probe call completes with an error, run returns that error,
\* probe_state keeps the value it had before the call, the slot is cleared, and
\* afterwards, in that run, no probe call is issued and the pipeline is not driven.
C12_ProbeErrorEndsRun ==
    /\ [][ProbeErrorStep =>
              /\ is_some(current_probe_future)
              /\ probe_state' = probe_state
              /\ probe_state = unwrap(current_probe_future).state
              /\ is_none(current_probe_future')
              /\ pc' = "done"
              /\ result' = [ret |-> "Err", by |-> "probe"]
              /\ UNCHANGED <<forward_pipeline, current_l1_head>>]_vars
    /\ [][result.by = "probe" =>
              UNCHANGED <<current_probe_future, forward_pipeline, probe_state, pc,
                          result>>]_vars

\* The run ended on a probe error after an earlier probe call had succeeded; the state
\* that call returned is kept.
C12_Witness ==
    /\ pc = "done"
    /\ result = [ret |-> "Err", by |-> "probe"]
    /\ iter.event = "probe_err"
    /\ probe_state # DefaultProbeState
    /\ is_none(current_probe_future)

\* A step in which the pipeline branch of the select! received an error.
RunErrorStep == iter' # iter /\ iter'.event = "run_err"

\* C13: when forward_pipeline.run returns an error, run_inner leaves its loop at once
\* and run returns that error; the L1 head and the probe state are left as they were,
\* and no L1 head update, probe completion or pipeline run is processed afterwards.
C13_PipelineErrorEndsRun ==
    /\ [][RunErrorStep =>
              /\ pc = "select"
              /\ pc' = "done"
              /\ result' = [ret |-> "Err", by |-> "pipeline"]
              /\ UNCHANGED <<current_l1_head, probe_state, current_probe_future,
                             probe_wait_deadline, l1_head_recv>>]_vars
    /\ [][result.by = "pipeline" =>
              UNCHANGED <<current_l1_head, probe_state, current_probe_future,
                          probe_wait_deadline, forward_pipeline, l1_head_recv, pc,
                          result>>]_vars

\* The run ended on a pipeline error while an L1 head was still unseen on the channel
\* and a probe call was still in flight: neither is processed.
C13_Witness ==
    /\ pc = "done"
    /\ result = [ret |-> "Err", by |-> "pipeline"]
    /\ iter.event = "run_err"
    /\ l1_head_recv.changed
    /\ l1_head_recv.value # current_l1_head
    /\ is_some(current_probe_future)

\* A step in which the L1 branch of the select! handled a change notification.
L1HandledStep == iter' # iter /\ iter'.event = "l1"

\* C14: handling an L1 head change sets current_l1_head to the value the channel holds
\* at that moment, which is the last one published (an earlier published value that was
\* overwritten is not on the channel any more) and marks it seen; current_l1_head
\* changes in no other step, and every iteration computes its target height from it.
C14_L1HeadLastWriteWins ==
    /\ [][L1HandledStep =>
              /\ l1_head_recv.changed
              /\ current_l1_head' = l1_head_recv.value
              /\ l1_head_recv' = [l1_head_recv EXCEPT !.changed = FALSE]]_vars
    /\ [][current_l1_head' # current_l1_head => L1HandledStep]_vars
    /\ [][IterationTopStep =>
              iter'.target_height =
                  MinOfStopAndMax(current_l1_head, ProbeHeight, stop_at_block_n)]_vars

\* A notification was handled that replaced the head by a lower one, and the iteration
\* that followed computed its target from the new head alone.
C14_Witness ==
    /\ pc = "select"
    /\ ~probe
    /\ is_none(stop_at_block_n)
    /\ current_l1_head = Some(0)
    /\ iter.target_height = Some(0)
    /\ forward_pipeline.next_input_block_n = MaxBlock
    /\ ~l1_head_recv.changed

\* A step in which the probe branch of the select! received Ok(state).
ProbeOkStep == iter' # iter /\ iter'.event = "probe_ok"

\* C15: probe_state is the Default value until a probe call has completed, changes only
\* in the step that receives a successful probe result, which replaces it by the
\* returned state, and every probe call is issued with the probe_state of that moment;
\* the call in flight therefore holds the state of the latest successful call.
C15_ProbeStateThreading ==
    /\ [](is_none(probe_wait_deadline) => probe_state = DefaultProbeState)
    /\ [](is_some(current_probe_future) =>
              unwrap(current_probe_future).state = probe_state)
    /\ [][probe_state' # probe_state => ProbeOkStep]_vars
    /\ [][ProbeOkStep => probe_state' = unwrap(iter'.returned)]_vars
    /\ [][IssuesProbeCall => unwrap(current_probe_future').state = probe_state]_vars

\* A probe call is in flight with a non-default state that an earlier call returned,
\* after an L1 head was handled and the pipeline took input.
C15_Witness ==
    /\ is_some(current_probe_future)
    /\ unwrap(current_probe_future).state # DefaultProbeState
    /\ unwrap(current_probe_future).state = probe_state
    /\ is_some(current_l1_head)
    /\ forward_pipeline.next_input_block_n > MaxStartBlock

\* A step in which the query of the probe call in the slot starts.
QueryStartStep ==
    /\ is_some(current_probe_future)
    /\ unwrap(current_probe_future).stage = "sleep"
    /\ current_probe_future' = Some([unwrap(current_probe_future) EXCEPT !.stage = "query"])

\* C16: every completion of a probe call sets the cooldown deadline to the completion
\* time plus PROBE_WAIT_DELAY, the call scheduled next carries that deadline, and its
\* query starts only once the clock has reached it; a call scheduled before any
\* completion carries no deadline and its query can start as soon as it is polled.
C16_CooldownBeforeNextQuery ==
    /\ [][ClearsProbeSlot => probe_wait_deadline' = Some(now + PROBE_WAIT_DELAY)]_vars
    /\ [](is_some(current_probe_future) =>
              unwrap(current_probe_future).delay = probe_wait_deadline)
    /\ [][QueryStartStep =>
              IF is_some(probe_wait_deadline)
              THEN now >= unwrap(probe_wait_deadline)
              ELSE TRUE]_vars
    /\ []((/\ pc = "select"
           /\ is_some(current_probe_future)
           /\ is_none(probe_wait_deadline)) =>
              \/ unwrap(current_probe_future).stage = "query"
              \/ ENABLED ProbeQueryStart)

\* The query of a second probe call is running: its cooldown deadline has passed.
C16_Witness ==
    /\ is_some(current_probe_future)
    /\ unwrap(current_probe_future).stage = "query"
    /\ is_some(probe_wait_deadline)
    /\ unwrap(current_probe_future).delay = probe_wait_deadline
    /\ now >= unwrap(probe_wait_deadline)

\* The probe call in the slot is waiting out its cooldown.
Cooling ==
    /\ is_some(current_probe_future)
    /\ unwrap(current_probe_future).stage = "sleep"
    /\ ~deadline_passed(unwrap(current_probe_future).delay)

\* C17: while the probe call in the slot is waiting out its cooldown, an unseen L1 head
\* can be handled, and an iteration that finds a target height with the pipeline
\* non-empty or target >= next_input_block_n() awaits forward_pipeline.run, which can
\* take input, commit and return without the deadline having passed.
C17_CooldownDoesNotBlock ==
    /\ []((pc = "select" /\ Cooling) =>
              /\ l1_head_recv.changed => ENABLED L1Changed
              /\ is_some(run_target(iter)) =>
                     /\ RunAwaited
                     /\ ENABLED FpRunReturned(TRUE)
                     /\ ~is_empty => ENABLED FpCommit
                     /\ (/\ forward_pipeline.outstanding < MaxOutstanding
                         /\ forward_pipeline.next_input_block_n <=
                                unwrap(run_target(iter))) => ENABLED FpTakeInput)
    /\ [][(IterationTopStep /\ Cooling') =>
              (RunAwaited' <=>
                   /\ is_some(target_height)
                   /\ \/ ~is_empty
                      \/ unwrap(target_height) >= next_input_block_n)]_vars

\* During the cooldown of a probe call an L1 head was handled and the pipeline, idle
\* when the call was scheduled, took input; its run is awaited with the deadline
\* still ahead.
C17_Witness ==
    /\ pc = "select"
    /\ Cooling
    /\ RunAwaited
    /\ ~is_empty
    /\ is_some(current_l1_head)
    /\ unwrap(current_probe_future).next_block_n < next_input_block_n

\* run was called again after a clean return and has not returned yet.
RunningAgain == result = [ret |-> "none", by |-> "run_again"]

\* C18: a run called again after a clean return, on the fields and the channel that
\* return left, calls neither forward_probe nor forward_pipeline.run: the probe slot
\* stays empty, the pipeline frontier and the probe state do not move, its only
\* select! outcome is the else branch, and whenever it returns it returns Ok.
C18_RunAgainIsIdempotent ==
    /\ [](RunningAgain =>
              /\ is_none(current_probe_future)
              /\ l1_branch_disabled
              /\ ~RunAwaited
              /\ pc = "select" => ENABLED SelectElse)
    /\ [][RunningAgain =>
              /\ UNCHANGED <<forward_pipeline, current_probe_future, probe_state,
                             current_l1_head, l1_head_recv, probe_wait_deadline>>
              /\ pc' = "done" => result'.ret = "Ok"]_vars

\* The second run of a controller with a probe, a cooldown deadline and outstanding
\* pipeline work has reached its select!: nothing was scheduled and only the else
\* branch is open.
C18_Witness ==
    /\ RunningAgain
    /\ pc = "select"
    /\ probe
    /\ is_some(probe_wait_deadline)
    /\ ~is_empty
    /\ is_none(current_probe_future)
    /\ ENABLED SelectElse

\* The query of a probe call is running.
ProbeQueryRunning ==
    is_some(current_probe_future) /\ unwrap(current_probe_future).stage = "query"

\* The conditions under which the controller is not expected to keep probing: the
\* pipeline is able to run, or the run was ended by shutdown or by an error.
NotIdleAnyMore ==
    \/ can_run_pipeline(target_height)
    \/ result.by \in {"graceful_shutdown", "probe", "pipeline"}

\* C19: with a probe configured, every successful probe completion is eventually
\* followed by the query of a new probe call, unless the pipeline becomes able to run
\* or the run is ended by shutdown or an error; so probe queries run infinitely often
\* for as long as the controller stays idle, and it does not return while idle.
C19_IdleControllerKeepsProbing ==
    /\ (iter.event = "probe_ok") ~> (ProbeQueryRunning \/ NotIdleAnyMore)
    /\ ([]<>ProbeQueryRunning) \/ <>NotIdleAnyMore
    /\ [](CleanReturn => can_run_pipeline(target_height))

\* The query of a later probe call is running after an earlier call succeeded and its
\* cooldown was waited out, the pipeline having been unable to run throughout.
C19_Witness ==
    /\ ProbeQueryRunning
    /\ is_some(unwrap(current_probe_future).delay)
    /\ probe_state # DefaultProbeState
    /\ ~can_run_pipeline(target_height)
    /\ forward_pipeline.next_input_block_n = unwrap(current_probe_future).next_block_n
    /\ is_none(current_l1_head)
    /\ is_none(stop_at_block_n)

\* The branches of the select! of run_inner that handle an event, by the event logged.
L1Events == {"l1"}
ProbeEvents == {"probe_ok", "probe_err"}
PipelineEvents == {"run_ok", "run_err"}

\* A step that ends an iteration of run_inner.
IterationEndStep == pc = "select" /\ pc' # "select"

\* C20: a step that ends an iteration handles one event: an L1 head change, a probe
\* completion or a pipeline run completion (or the iteration is ended by the else
\* branch, a status tick or shutdown). What belongs to the events not handled is left
\* as it was: an unseen L1 head stays unseen, the pipeline keeps its state, and the
\* probe call in the slot is carried unchanged through the step and through the top of
\* the next iteration, which does not issue another call over it.
C20_OneEventPerIteration ==
    /\ [][IterationEndStep =>
              /\ iter'.event \in L1Events \cup ProbeEvents \cup PipelineEvents
                                 \cup {"else", "tick", "shutdown"}
              /\ iter'.event \in L1Events <=>
                     (l1_head_recv.changed /\ ~l1_head_recv'.changed)
              /\ iter'.event \in ProbeEvents <=> ClearsProbeSlot
              /\ iter'.event \notin L1Events =>
                     UNCHANGED <<l1_head_recv, current_l1_head>>
              /\ iter'.event \notin ProbeEvents =>
                     UNCHANGED <<current_probe_future, probe_state,
                                 probe_wait_deadline>>
              /\ UNCHANGED forward_pipeline]_vars
    /\ [][(IterationTopStep /\ is_some(current_probe_future)) =>
              UNCHANGED current_probe_future]_vars

\* An iteration ended by a pipeline run completion left an unseen L1 head on the
\* channel and a running probe query in the slot.
C20_Witness ==
    /\ pc = "run_inner"
    /\ iter.event = "run_ok"
    /\ l1_head_recv.changed
    /\ is_some(current_probe_future)
    /\ unwrap(current_probe_future).stage = "query"

\* In an iteration that reached its select!, the pipeline holds outstanding work.
PipelineNonEmpty == pc = "select" /\ ~is_empty

\* C31: whenever the forward pipeline reports outstanding work, the iteration can make
\* progress on it: forward_pipeline.run is awaited, or a probe call is in flight or
\* scheduled.
C31_NonEmptyPipelineCanProgress ==
    PipelineNonEmpty =>
        \/ is_some(run_target(iter))
        \/ is_some(current_probe_future)

\* An iteration of a controller with a probe that found the pipeline non-empty and no
\* target height: can_run_pipeline holds, so no probe call was scheduled, and run is
\* not awaited for want of a target.
C31_Witness ==
    /\ PipelineNonEmpty
    /\ probe
    /\ iter.can_run_pipeline
    /\ is_none(iter.target_height)
    /\ is_none(current_probe_future)
    /\ ~l1_head_recv.changed

\* The controller as SyncController::new left it: run has not started an iteration.
JustCreated == pc = "run_inner" /\ iter = NoIter

\* The fields SyncController::new sets, and the target height they give.
CreatedState ==
    /\ is_none(current_l1_head)
    /\ probe_state = DefaultProbeState
    /\ is_none(current_probe_future)
    /\ is_none(probe_wait_deadline)
    /\ target_height = stop_at_block_n

\* C32: a controller is created with no L1 head (whatever the channel holds), the
\* default probe state, no probe call in flight and no cooldown deadline, so that its
\* target height is stop_at_block_n; current_l1_head is assigned only by the L1 branch
\* of the select!, hence stays None until the first change notification is handled.
C32_NoHeadUntilFirstNotification ==
    /\ CreatedState
    /\ [](JustCreated => CreatedState)
    /\ [][current_l1_head' # current_l1_head => L1HandledStep]_vars
    /\ [][is_none(current_l1_head) /\ ~L1HandledStep => is_none(current_l1_head')]_vars

\* The channel held block 1 before the controller was created and nothing was
\* published since; a probe call has completed and the controller, still without an
\* L1 head, is in a later iteration, heading for its stop height.
C32_Witness ==
    /\ pc = "select"
    /\ l1_head_recv = [value |-> Some(1), changed |-> FALSE, closed |-> FALSE]
    /\ is_none(current_l1_head)
    /\ is_some(probe_wait_deadline)
    /\ is_some(stop_at_block_n)
    /\ iter.target_height = stop_at_block_n

\* changed() reports the closure: the sender is dropped and no published head is unseen.
ClosureReported == l1_head_recv.closed /\ ~l1_head_recv.changed

\* A step in which run ends.
RunEnds == pc # "done" /\ pc' = "done"

\* A step in which the select! of run_inner took its else branch.
ElseStep == iter' # iter /\ iter'.event = "else"

\* C33: a closed L1 channel does not make the run fail. Once changed() reports the
\* closure the L1 branch is disabled and current_l1_head keeps its value; a run that
\* ends with the channel closed ends by shutdown, by an error of the probe or of the
\* pipeline, or by the else branch, which returns Ok and is taken only with no probe
\* call in the slot and forward_pipeline.run not awaited. A controller with a probe
\* whose pipeline cannot run still has a probe call in the slot at every select!.
C33_ClosedChannelDoesNotFail ==
    /\ [][ClosureReported => ~L1HandledStep /\ current_l1_head' = current_l1_head]_vars
    /\ [][l1_head_recv'.closed /\ ~l1_head_recv.closed =>
              UNCHANGED <<current_l1_head, current_probe_future, probe_state,
                          probe_wait_deadline, forward_pipeline, pc, iter, result>>]_vars
    /\ [][l1_head_recv.closed /\ RunEnds =>
              \/ iter'.event = "shutdown" /\ result'.ret = "Ok"
              \/ ProbeErrorStep
              \/ RunErrorStep
              \/ ElseStep]_vars
    /\ [][ElseStep =>
              /\ ClosureReported
              /\ is_none(current_probe_future)
              /\ is_none(run_target(iter))
              /\ result' = [ret |-> "Ok", by |-> "run_inner"]]_vars
    /\ []((l1_head_recv.closed /\ pc = "select" /\ probe /\ ~iter.can_run_pipeline)
              => is_some(current_probe_future))
    /\ []((l1_head_recv.closed /\ pc = "select"
               /\ (is_some(current_probe_future) \/ is_some(run_target(iter))))
              => ~ENABLED SelectElse)

\* The channel is closed with nothing unseen; the controller kept the head it took
\* over, a probe call completed earlier and another one is querying, and the pipeline
\* is being driven towards that head.
C33_Witness ==
    /\ pc = "select"
    /\ ClosureReported
    /\ current_l1_head = l1_head_recv.value
    /\ is_some(current_l1_head)
    /\ is_some(probe_wait_deadline)
    /\ is_some(current_probe_future)
    /\ unwrap(current_probe_future).stage = "query"
    /\ is_some(run_target(iter))
    /\ ~is_empty

\* The arguments of the forward_probe call in the slot.
ProbeCallArgs(fut) == <<fut.next_block_n, fut.batch_size, fut.state>>

\* C34: a forward_probe call is issued with next_input_block_n(), input_batch_size()
\* and probe_state as they are in the iteration that schedules it, and the call in the
\* slot keeps these arguments until it completes: they are not read again when the
\* cooldown sleep ends, whatever the pipeline did in the meantime.
C34_ProbeArgsFixedWhenScheduled ==
    /\ [][IssuesProbeCall =>
              ProbeCallArgs(unwrap(current_probe_future')) =
                  <<next_input_block_n, input_batch_size, probe_state>>]_vars
    /\ [][is_some(current_probe_future) /\ is_some(current_probe_future') =>
              ProbeCallArgs(unwrap(current_probe_future')) =
                  ProbeCallArgs(unwrap(current_probe_future))]_vars
    /\ [][QueryStartStep =>
              unwrap(current_probe_future').next_block_n =
                  unwrap(current_probe_future).next_block_n]_vars

\* A call scheduled with a cooldown deadline has its query running, at the instant
\* of the deadline; since it was scheduled an L1 head let the pipeline advance, so the
\* query runs from a block number below next_input_block_n().
C34_Witness ==
    /\ is_some(current_probe_future)
    /\ unwrap(current_probe_future).stage = "query"
    /\ is_some(unwrap(current_probe_future).delay)
    /\ now = unwrap(unwrap(current_probe_future).delay)
    /\ is_some(current_l1_head)
    /\ unwrap(current_probe_future).next_block_n < next_input_block_n

\* The target height of a controller without probe: the L1 head bounded by the stop
\* height.
HeadBoundedByStop == aggregate_options(current_l1_head, stop_at_block_n, u64_min)

\* C35: a controller created without a probe never issues a forward_probe call; its
\* probe slot stays empty, its cooldown deadline stays None and its probe_state stays
\* the default; its target height is a function of the L1 head and the stop height
\* alone, whatever the probe state is.
C35_NoProbeNoProbing ==
    /\ [](~probe =>
              /\ is_none(current_probe_future)
              /\ is_none(probe_wait_deadline)
              /\ probe_state = DefaultProbeState)
    /\ [][~probe =>
              /\ ~IssuesProbeCall
              /\ UNCHANGED <<current_probe_future, probe_wait_deadline, probe_state>>]_vars
    /\ [](~probe =>
              /\ target_height = HeadBoundedByStop
              /\ \A state \in ProbeStates :
                     TargetHeight(current_l1_head, probe, state, stop_at_block_n) =
                         HeadBoundedByStop)
    /\ []((~probe /\ pc = "select") => iter.target_height = HeadBoundedByStop)

\* A controller without probe is idle at its select!: the L1 head is above the stop
\* height, the pipeline has reached the stop height, nothing is in the probe slot.
C35_Witness ==
    /\ ~probe
    /\ pc = "select"
    /\ is_some(current_l1_head)
    /\ is_some(stop_at_block_n)
    /\ unwrap(current_l1_head) > unwrap(stop_at_block_n)
    /\ iter.target_height = stop_at_block_n
    /\ ~iter.can_run_pipeline
    /\ is_none(current_probe_future)
    /\ next_input_block_n > MaxStartBlock

\* ====================================================================
\* Properties of PipelineController (specification SpecPipeline)
\* ====================================================================
IsPrefix(a, b) == Len(a) <= Len(b) /\ \A i \in 1..Len(a) : a[i] = b[i]

CalledRanges == [i \in 1..Len(sequential_calls) |-> sequential_calls[i].range]

\* C2: sequential_step is invoked on the ranges in the order in which they were
\* scheduled, strictly increasing and without gaps, whatever the order in which the
\* parallel steps finish; at most one invocation is in progress, and it is on the range
\* that starts at the commit frontier (every earlier range has been committed).
C2_SequentialStepsInScheduleOrder ==
    /\ IsPrefix(CalledRanges, scheduled)
    /\ \A i \in 1..Len(sequential_calls) :
          /\ sequential_calls[i].range.start < sequential_calls[i].range.end
          /\ i > 1 => /\ sequential_calls[i].range.start = sequential_calls[i - 1].range.end
                      /\ sequential_calls[i - 1].outcome = "Success"
    /\ Cardinality(applying) <= 1
    /\ \A i \in applying :
          /\ i = Len(sequential_calls)
          /\ sequential_calls[i].range.start = pipeline.frontier

\* The parallel step of the second range has finished while that of the first is still
\* running: the second range waits.
C2_Witness ==
    /\ Len(pipeline.queue) = 2
    /\ pipeline.queue[1].step = "running"
    /\ pipeline.queue[2].step = "ready"
    /\ Len(sequential_calls) >= 1

\* C3: the number of parallel_step tasks in flight never exceeds the parallelization
\* the pipeline was configured with.
C3_ParallelizationBound ==
    /\ Cardinality(parallel_in_flight) <= pipeline_config.parallelization
    /\ Len(pipeline.queue) <= pipeline_config.parallelization

\* As many parallel steps in flight as configured, with more input below the target.
C3_Witness ==
    /\ PipelineActive
    /\ pipeline_config.parallelization = 2
    /\ Cardinality(parallel_in_flight) = 2
    /\ pipeline.next_input_block_n <= unwrap(pipeline_run)

\* The end of the last range whose sequential_step returned Success, the starting
\* block when there is none.
CommittedUpTo ==
    LET done == {i \in 1..Len(sequential_calls) : sequential_calls[i].outcome = "Success"}
    IN IF done = {}
       THEN (IF is_some(pipeline_config.starting_block_n)
             THEN unwrap(pipeline_config.starting_block_n) ELSE 0)
       ELSE sequential_calls[SetMax(done)].range.end

\* A step in which a parallel step returns.
ParallelStepReturns ==
    \E i \in 1..Len(pipeline.queue) :
        /\ i <= Len(pipeline'.queue)
        /\ pipeline.queue[i].step = "running"
        /\ pipeline'.queue[i].step # "running"

\* A step in which the sequential step in progress returns `outcome`.
SequentialStepReturns(outcome) ==
    \E i \in applying : sequential_calls'[i].outcome = outcome

\* C5: the commit frontier never decreases; it moves only in the step in which a
\* sequential_step returns Success, to the end of that range, and it stays where it is
\* when a parallel step returns and when a sequential step errs or returns a
\* non-success outcome.
C5_FrontierState ==
    pipeline.frontier = CommittedUpTo

C5_FrontierAdvancesOnSuccess ==
    /\ []C5_FrontierState
    /\ [][/\ pipeline'.frontier >= pipeline.frontier
          /\ pipeline'.frontier # pipeline.frontier =>
                 /\ SequentialStepReturns("Success")
                 /\ \A i \in applying : pipeline'.frontier = sequential_calls[i].range.end
          /\ (ParallelStepReturns \/ SequentialStepReturns("Err")
                  \/ SequentialStepReturns("NonSuccess")) =>
                 pipeline'.frontier = pipeline.frontier]_vars

\* A sequential step returned a non-success outcome after an earlier range was
\* committed: the frontier is at the end of the earlier range.
C5_Witness ==
    /\ Len(sequential_calls) = 2
    /\ sequential_calls[1].outcome = "Success"
    /\ sequential_calls[2].outcome = "NonSuccess"
    /\ pipeline.frontier = sequential_calls[1].range.end
    /\ pipeline.frontier > 0

HasNonSuccess ==
    \E i \in 1..Len(sequential_calls) : sequential_calls[i].outcome = "NonSuccess"

\* C6: once a sequential_step has returned a non-success outcome the controller takes
\* no further range into flight and invokes no further sequential_step, and the run in
\* which it happened, like every later run, returns Ok and not an error.
C6_HaltedState ==
    HasNonSuccess =>
        /\ pipeline_result # "Err"
        /\ applying = {}
        /\ ~PipelineActive => pipeline_result = "Ok"

C6_NonSuccessHaltsCleanly ==
    /\ []C6_HaltedState
    /\ [][HasNonSuccess =>
              /\ scheduled' = scheduled
              /\ Len(sequential_calls') = Len(sequential_calls)]_vars
    /\ [][SequentialStepReturns("NonSuccess") =>
              /\ pipeline_run' = None
              /\ pipeline_result' = "Ok"]_vars

\* The controller halted with room in its queue and blocks left below the target of a
\* later run.
C6_Witness ==
    /\ HasNonSuccess
    /\ PipelineActive
    /\ Len(pipeline.queue) < pipeline.parallelization
    /\ pipeline.next_input_block_n <= unwrap(pipeline_run)

\* The frontier the controller was created at.
StartingFrontier ==
    IF is_some(pipeline_config.starting_block_n)
    THEN unwrap(pipeline_config.starting_block_n)
    ELSE 0

\* The end of the range scheduled last, the starting frontier before any.
ScheduledUpTo ==
    IF scheduled = <<>> THEN StartingFrontier ELSE scheduled[Len(scheduled)].end

\* C21: the ranges taken into flight are half-open, contiguous and non-overlapping:
\* the first starts at the frontier given by starting_block_n (0 when None), each later
\* one starts where the previous one ends, each covers between 1 and batch_size blocks,
\* next_input_block_n is the end of the range scheduled last, never decreases and is
\* never below the commit frontier.
C21_RangeState ==
    /\ \A i \in 1..Len(scheduled) :
          /\ scheduled[i].start < scheduled[i].end
          /\ scheduled[i].end - scheduled[i].start <= pipeline_config.batch_size
          /\ scheduled[i].start =
                 IF i = 1 THEN StartingFrontier ELSE scheduled[i - 1].end
    /\ pipeline.next_input_block_n = ScheduledUpTo
    /\ pipeline.frontier <= pipeline.next_input_block_n
    /\ StartingFrontier <= pipeline.frontier

C21_RangesContiguous ==
    /\ []C21_RangeState
    /\ [][pipeline'.next_input_block_n >= pipeline.next_input_block_n]_vars
    /\ [][scheduled' # scheduled =>
              /\ scheduled' = Append(scheduled, scheduled'[Len(scheduled')])
              /\ scheduled'[Len(scheduled')].start = pipeline.next_input_block_n
              /\ pipeline'.next_input_block_n = scheduled'[Len(scheduled')].end]_vars

\* A controller resumed at block 1 with batch_size 2 has scheduled a full range and
\* then a shorter one cut at the target, with the first one committed.
C21_Witness ==
    /\ pipeline_config.starting_block_n = Some(1)
    /\ pipeline_config.batch_size = 2
    /\ Len(scheduled) >= 2
    /\ scheduled[1] = Range(1, 3)
    /\ scheduled[2] = Range(3, 4)
    /\ pipeline.frontier = 3

\* A step in which the parallel step of a range in flight fails.
ParallelStepFails ==
    \E i \in 1..Len(pipeline.queue) :
        /\ i <= Len(pipeline'.queue)
        /\ pipeline.queue[i].step = "running"
        /\ pipeline'.queue[i].step = "failed"

\* Some step of some range has failed.
HasFailure ==
    \/ \E i \in 1..Len(sequential_calls) : sequential_calls[i].outcome = "Err"
    \/ \E i \in 1..Len(pipeline.queue) : pipeline.queue[i].step = "failed"

\* C22: when a parallel_step or a sequential_step fails, run returns an error in that
\* very step, the commit frontier stays at the end of the last range committed with
\* Success, and afterwards the failed range is not retried: nothing is scheduled and no
\* sequential_step is invoked or completed any more.
C22_FailureState ==
    HasFailure =>
        /\ pipeline_result = "Err"
        /\ ~PipelineActive
        /\ pipeline.frontier = CommittedUpTo

C22_StepFailureSurfaces ==
    /\ []C22_FailureState
    /\ [][(ParallelStepFails \/ SequentialStepReturns("Err")) =>
              /\ pipeline_result' = "Err"
              /\ pipeline_run' = None
              /\ pipeline'.frontier = pipeline.frontier
              /\ scheduled' = scheduled]_vars
    /\ [][HasFailure =>
              UNCHANGED <<scheduled, sequential_calls, pipeline, pipeline_run,
                          pipeline_result>>]_vars

\* The sequential step of the second range failed after the first range was committed,
\* with a later range waiting in the queue, its parallel step finished.
C22_Witness ==
    /\ Len(sequential_calls) = 2
    /\ sequential_calls[1].outcome = "Success"
    /\ sequential_calls[2].outcome = "Err"
    /\ pipeline.frontier = sequential_calls[1].range.end
    /\ pipeline.frontier < sequential_calls[2].range.end
    /\ Len(pipeline.queue) >= 1
    /\ pipeline.queue[1].step = "ready"
    /\ pipeline_result = "Err"

\* ====================================================================
\* p2p transactions handler (handlers_impl/transactions.rs)
\* ====================================================================
\* ---- integers. The widths are scaled down, their order is kept:
\* u32 < u64 < u128 < Felt.
felt_to_u32(felt) == IF felt <= U32Max THEN Some(felt) ELSE None
felt_to_u64(felt) == IF felt <= U64Max THEN Some(felt) ELSE None
felt_to_u128(felt) == IF felt <= U128Max THEN Some(felt) ELSE None

\* Option::unwrap_or_default for a Felt, an integer or a Vec.
unwrap_or_default(o, default) == IF is_some(o) THEN unwrap(o) ELSE default

\* FromModelError
missing_field(name) == [error |-> "missing_field", what |-> name]
invalid_field(name) == [error |-> "invalid_field", what |-> name]
invalid_enum_variant(name) == [error |-> "invalid_enum_variant", what |-> name]

\* ---- the transaction variants and their fields
Txn == {"InvokeV0", "InvokeV1", "InvokeV3", "DeclareV0", "DeclareV1", "DeclareV2",
        "DeclareV3", "Deploy", "DeployAccountV1", "DeployAccountV3", "L1Handler"}

V3Txn == {"InvokeV3", "DeclareV3", "DeployAccountV3"}

\* The Felt fields that are copied, as <<field of the internal struct, field of the
\* wire message>>.
FeltFields(variant) ==
    CASE variant = "InvokeV0" ->
             {<<"max_fee", "max_fee">>, <<"contract_address", "address">>,
              <<"entry_point_selector", "entry_point_selector">>}
      [] variant = "InvokeV1" ->
             {<<"sender_address", "sender">>, <<"max_fee", "max_fee">>,
              <<"nonce", "nonce">>}
      [] variant = "InvokeV3" ->
             {<<"sender_address", "sender">>, <<"nonce", "nonce">>}
      [] variant = "DeclareV0" ->
             {<<"sender_address", "sender">>, <<"max_fee", "max_fee">>,
              <<"class_hash", "class_hash">>}
      [] variant = "DeclareV1" ->
             {<<"sender_address", "sender">>, <<"max_fee", "max_fee">>,
              <<"nonce", "nonce">>, <<"class_hash", "class_hash">>}
      [] variant = "DeclareV2" ->
             {<<"sender_address", "sender">>,
              <<"compiled_class_hash", "compiled_class_hash">>,
              <<"max_fee", "max_fee">>, <<"nonce", "nonce">>,
              <<"class_hash", "class_hash">>}
      [] variant = "DeclareV3" ->
             {<<"sender_address", "sender">>,
              <<"compiled_class_hash", "compiled_class_hash">>,
              <<"nonce", "nonce">>, <<"class_hash", "class_hash">>}
      [] variant = "Deploy" ->
             {<<"contract_address_salt", "address_salt">>,
              <<"class_hash", "class_hash">>}
      [] variant = "DeployAccountV1" ->
             {<<"max_fee", "max_fee">>, <<"nonce", "nonce">>,
              <<"contract_address_salt", "address_salt">>,
              <<"class_hash", "class_hash">>}
      [] variant = "DeployAccountV3" ->
             {<<"nonce", "nonce">>, <<"contract_address_salt", "address_salt">>,
              <<"class_hash", "class_hash">>}
      [] variant = "L1Handler" ->
             {<<"contract_address", "address">>,
              <<"entry_point_selector", "entry_point_selector">>}

\* The Vec<Felt> fields that are copied, the same way.
VecFields(variant) ==
    (IF variant \in {"InvokeV0", "InvokeV1", "InvokeV3", "L1Handler"}
     THEN {<<"calldata", "calldata">>} ELSE {})
    \cup (IF variant \in {"Deploy", "DeployAccountV1", "DeployAccountV3"}
          THEN {<<"constructor_calldata", "calldata">>} ELSE {})
    \cup (IF variant \in V3Txn THEN {<<"paymaster_data", "paymaster_data">>} ELSE {})
    \cup (IF variant \in {"InvokeV3", "DeclareV3"}
          THEN {<<"account_deployment_data", "account_deployment_data">>} ELSE {})

\* The variants that carry a signature (Option<AccountSignature> on the wire).
HasSignature(variant) == variant \notin {"Deploy", "L1Handler"}

InternalNames(pairs) == {p[1] : p \in pairs}
WireNames(pairs) == {p[2] : p \in pairs}
WireNameOf(pairs, name) == (CHOOSE p \in pairs : p[1] = name)[2]
InternalNameOf(pairs, name) == (CHOOSE p \in pairs : p[2] = name)[1]

\* ---- internal -> wire (impl From<...> for model::...)
\* From<ResourceBounds> for model::ResourceLimits
ResourceLimitsFrom(value) ==
    [max_amount |-> Some(value.max_amount),
     max_price_per_unit |-> Some(value.max_price_per_unit)]

\* From<ResourceBoundsMapping> for model::ResourceBounds
ResourceBoundsFrom(value) ==
    [l1_gas |-> Some(ResourceLimitsFrom(value.l1_gas)),
     l2_gas |-> Some(ResourceLimitsFrom(value.l2_gas))]

\* From<DataAvailabilityMode> for model::VolitionDomain, then into the i32 of the field.
VolitionDomainFrom(value) == IF value = "L1" THEN 0 ELSE 1

\* The fields of a wire transaction that are not plain copies.
TxnSpecialFrom(value) ==
    CASE value.variant \in V3Txn ->
             [resource_bounds |-> Some(ResourceBoundsFrom(value.special.resource_bounds)),
              tip |-> value.special.tip,
              nonce_data_availability_mode |->
                  VolitionDomainFrom(value.special.nonce_data_availability_mode),
              fee_data_availability_mode |->
                  VolitionDomainFrom(value.special.fee_data_availability_mode)]
      [] value.variant = "Deploy" ->
             [version |-> unwrap_or_default(felt_to_u32(value.special.version), 0)]
      [] value.variant = "L1Handler" ->
             [nonce |-> Some(value.special.nonce)]
      [] OTHER -> [none |-> 0]

\* The expect() call of the Deploy encoder, when it fails.
TxnPanics(value) ==
    IF value.variant = "Deploy" /\ is_none(felt_to_u32(value.special.version))
    THEN <<"DeployTransaction version is not an u32">>
    ELSE <<>>

\* From<Transaction> for model::transaction::Txn
TxnFrom(value) ==
    LET felts == FeltFields(value.variant)
        vecs == VecFields(value.variant)
    IN [variant |-> value.variant,
        felts |-> [name \in WireNames(felts) |->
                       Some(value.felts[InternalNameOf(felts, name)])],
        vecs |-> [name \in WireNames(vecs) |-> value.vecs[InternalNameOf(vecs, name)]],
        signature |-> IF HasSignature(value.variant) THEN Some(value.signature) ELSE None,
        special |-> TxnSpecialFrom(value)]

\* ---- receipts, internal -> wire
\* The builtin counters, as <<field of ExecutionResources, field of BuiltinCounter>>, in
\* the order the encoder evaluates them.
Builtins ==
    << <<"bitwise_builtin_applications", "bitwise">>,
       <<"ecdsa_builtin_applications", "ecdsa">>,
       <<"ec_op_builtin_applications", "ec_op">>,
       <<"pedersen_builtin_applications", "pedersen">>,
       <<"range_check_builtin_applications", "range_check">>,
       <<"poseidon_builtin_applications", "poseidon">>,
       <<"keccak_builtin_applications", "keccak">> >>

BuiltinPairs == {Builtins[k] : k \in DOMAIN Builtins}

\* u64::try_into::<u32>()
u64_to_u32(n) == IF n <= U32Max THEN Some(n) ELSE None

\* The expect() calls of the ExecutionResources encoder that fail, in evaluation order.
ExecutionResourcesPanics(value) ==
    LET builtin(k) ==
            IF is_none(u64_to_u32(unwrap_or_default(value.builtins[Builtins[k][1]], 0)))
            THEN <<Builtins[k][2] \o "_builtin > u32::MAX">> ELSE <<>>
        builtins_from[k \in 0..Len(Builtins)] ==
            IF k = 0 THEN <<>> ELSE builtins_from[k - 1] \o builtin(k)
    IN builtins_from[Len(Builtins)]
       \o (IF is_none(u64_to_u32(value.steps)) THEN <<"steps > u32::MAX">> ELSE <<>>)
       \o (IF is_none(u64_to_u32(unwrap_or_default(value.memory_holes, 0)))
           THEN <<"memory_holes > u32::MAX">> ELSE <<>>)

\* From<ExecutionResources> for model::receipt::ExecutionResources
ExecutionResourcesFrom(value) ==
    [builtins |-> Some([name \in WireNames(BuiltinPairs) |->
                          unwrap_or_default(u64_to_u32(unwrap_or_default(
                              value.builtins[InternalNameOf(BuiltinPairs, name)], 0)), 0)]),
     steps |-> unwrap_or_default(u64_to_u32(value.steps), 0),
     memory_holes |-> unwrap_or_default(u64_to_u32(unwrap_or_default(value.memory_holes, 0)), 0),
     l1_gas |-> Some(value.total_gas_consumed.l1_gas),
     l1_data_gas |-> Some(value.total_gas_consumed.l1_data_gas),
     total_l1_gas |-> Some(value.total_gas_consumed.l1_gas)]

\* From<MsgToL1> for model::MessageToL1
MessageToL1From(value) ==
    [from_address |-> Some(value.from_address),
     payload |-> value.payload,
     to_address |-> Some(value.to_address)]

\* From<PriceUnit> for model::PriceUnit, then into the i32 of the field.
PriceUnitFrom(value) == IF value = "Wei" THEN 0 ELSE 1

\* ExecutionResult::revert_reason
revert_reason(execution_result) ==
    IF execution_result.kind = "Reverted" THEN Some(execution_result.reason) ELSE None

\* The model::receipt::Common every receipt encoder builds. The events of the receipt
\* have no place in it.
CommonFrom(value) ==
    [actual_fee |-> Some(value.actual_fee.amount),
     price_unit |-> PriceUnitFrom(value.actual_fee.unit),
     messages_sent |-> [k \in DOMAIN value.messages_sent |->
                           MessageToL1From(value.messages_sent[k])],
     execution_resources |-> Some(ExecutionResourcesFrom(value.execution_resources)),
     revert_reason |-> revert_reason(value.execution_result)]

\* From<TransactionReceipt> for model::Receipt
ReceiptFrom(value) ==
    [type |-> Some(
        [variant |-> IF value.variant = "Deploy" THEN "DeprecatedDeploy" ELSE value.variant,
         common |-> Some(CommonFrom(value)),
         extra |-> CASE value.variant = "L1Handler" ->
                            [msg_hash |-> Some(value.extra.message_hash)]
                     [] value.variant \in {"Deploy", "DeployAccount"} ->
                            [contract_address |-> Some(value.extra.contract_address)]
                     [] OTHER -> [none |-> 0]])]

\* From<TransactionWithReceipt> for model::TransactionWithReceipt. The encoder panics
\* at the first expect() that fails; panic holds its message then.
TransactionWithReceiptFrom(value) ==
    LET panics == TxnPanics(value.transaction)
                  \o ExecutionResourcesPanics(value.receipt.execution_resources)
    IN IF panics # <<>>
       THEN [panic |-> Some(Head(panics)), value |-> None]
       ELSE [panic |-> None,
             value |-> Some(
                 [transaction |-> Some([transaction_hash |-> Some(value.receipt.transaction_hash),
                                        txn |-> Some(TxnFrom(value.transaction))]),
                  receipt |-> Some(ReceiptFrom(value.receipt))])]

\* ---- wire -> internal (impl TryFrom<model::...>). Every decoder gives the errors its
\* `?` operators can return, in evaluation order (the first one is returned), and the
\* value it builds when there is none.
\* TryFrom<model::ResourceLimits> for ResourceBounds
ResourceLimitsErrors(value) ==
    (IF is_none(felt_to_u64(unwrap_or_default(value.max_amount, 0)))
     THEN <<invalid_field("ResourceLimits::max_amount")>> ELSE <<>>)
    \o (IF is_none(felt_to_u128(unwrap_or_default(value.max_price_per_unit, 0)))
        THEN <<invalid_field("ResourceLimits::max_price_per_unit")>> ELSE <<>>)

ResourceLimitsTryFrom(value) ==
    [max_amount |-> unwrap_or_default(felt_to_u64(unwrap_or_default(value.max_amount, 0)), 0),
     max_price_per_unit |->
         unwrap_or_default(felt_to_u128(unwrap_or_default(value.max_price_per_unit, 0)), 0)]

\* model::ResourceLimits::default()
ResourceLimitsDefault == [max_amount |-> None, max_price_per_unit |-> None]

\* model::ResourceBounds::default()
ResourceBoundsDefault == [l1_gas |-> None, l2_gas |-> None]

\* TryFrom<model::ResourceBounds> for ResourceBoundsMapping
ResourceBoundsErrors(value) ==
    ResourceLimitsErrors(unwrap_or_default(value.l1_gas, ResourceLimitsDefault))
    \o ResourceLimitsErrors(unwrap_or_default(value.l2_gas, ResourceLimitsDefault))

ResourceBoundsTryFrom(value) ==
    [l1_gas |-> ResourceLimitsTryFrom(unwrap_or_default(value.l1_gas, ResourceLimitsDefault)),
     l2_gas |-> ResourceLimitsTryFrom(unwrap_or_default(value.l2_gas, ResourceLimitsDefault))]

\* model::VolitionDomain::try_from(i32), then From<model::VolitionDomain>.
VolitionDomainTryFrom(discriminant) ==
    CASE discriminant = 0 -> Some("L1")
      [] discriminant = 1 -> Some("L2")
      [] OTHER -> None

TxnErrors(value) ==
    CASE value.variant \in V3Txn ->
             ResourceBoundsErrors(
                 unwrap_or_default(value.special.resource_bounds, ResourceBoundsDefault))
             \o (IF is_none(VolitionDomainTryFrom(value.special.nonce_data_availability_mode))
                 THEN <<invalid_enum_variant("VolitionDomain")>> ELSE <<>>)
             \o (IF is_none(VolitionDomainTryFrom(value.special.fee_data_availability_mode))
                 THEN <<invalid_enum_variant("VolitionDomain")>> ELSE <<>>)
      [] value.variant = "L1Handler" ->
             IF is_none(felt_to_u64(unwrap_or_default(value.special.nonce, 0)))
             THEN <<invalid_field("L1HandlerV0::nonce")>> ELSE <<>>
      [] OTHER -> <<>>

TxnSpecialTryFrom(value) ==
    CASE value.variant \in V3Txn ->
             [resource_bounds |->
                  ResourceBoundsTryFrom(
                      unwrap_or_default(value.special.resource_bounds, ResourceBoundsDefault)),
              tip |-> value.special.tip,
              nonce_data_availability_mode |->
                  unwrap_or_default(
                      VolitionDomainTryFrom(value.special.nonce_data_availability_mode), "L1"),
              fee_data_availability_mode |->
                  unwrap_or_default(
                      VolitionDomainTryFrom(value.special.fee_data_availability_mode), "L1")]
      [] value.variant = "Deploy" ->
             [version |-> value.special.version]
      [] value.variant = "L1Handler" ->
             [version |-> 0,
              nonce |-> unwrap_or_default(
                            felt_to_u64(unwrap_or_default(value.special.nonce, 0)), 0)]
      [] OTHER -> [none |-> 0]

\* TryFrom<model::transaction::Txn> for Transaction
TxnTryFrom(value) ==
    LET felts == FeltFields(value.variant)
        vecs == VecFields(value.variant)
    IN [variant |-> value.variant,
        felts |-> [name \in InternalNames(felts) |->
                       unwrap_or_default(value.felts[WireNameOf(felts, name)], 0)],
        vecs |-> [name \in InternalNames(vecs) |-> value.vecs[WireNameOf(vecs, name)]],
        signature |-> unwrap_or_default(value.signature, <<>>),
        special |-> TxnSpecialTryFrom(value)]

\* TryFrom<model::Transaction> for TransactionWithHash
TransactionErrors(value) ==
    (IF is_none(value.txn)
     THEN <<missing_field("Transaction::transaction")>>
     ELSE TxnErrors(unwrap(value.txn)))
    \o (IF is_none(value.transaction_hash)
        THEN <<missing_field("Transaction::transaction_hash")>> ELSE <<>>)

\* model::Transaction::default()
TransactionDefault == [transaction_hash |-> None, txn |-> None]

\* TryFrom<model::receipt::ExecutionResources> for ExecutionResources
opt(builtin) == IF builtin = 0 THEN None ELSE Some(builtin)

ExecutionResourcesErrors(value) ==
    (IF is_none(felt_to_u128(unwrap_or_default(value.l1_gas, 0)))
     THEN <<invalid_field("ExecutionResources::l1_gas")>> ELSE <<>>)
    \o (IF is_none(felt_to_u128(unwrap_or_default(value.l1_data_gas, 0)))
        THEN <<invalid_field("ExecutionResources::l1_data_gas")>> ELSE <<>>)

\* BuiltinCounter::default()
BuiltinCounterDefault == [name \in WireNames(BuiltinPairs) |-> 0]

\* L1Gas::default()
L1GasDefault == [l1_gas |-> 0, l1_data_gas |-> 0]

ExecutionResourcesTryFrom(value) ==
    LET builtins == unwrap_or_default(value.builtins, BuiltinCounterDefault)
    IN [steps |-> value.steps,
        memory_holes |-> opt(value.memory_holes),
        builtins |-> [name \in InternalNames(BuiltinPairs) |->
                         opt(builtins[WireNameOf(BuiltinPairs, name)])],
        segment_arena_builtin |-> None,
        data_availability |->
            [l1_gas |-> unwrap_or_default(felt_to_u128(unwrap_or_default(value.l1_gas, 0)), 0),
             l1_data_gas |->
                 unwrap_or_default(felt_to_u128(unwrap_or_default(value.l1_data_gas, 0)), 0)],
        total_gas_consumed |-> L1GasDefault]

\* model::receipt::ExecutionResources::default()
ExecutionResourcesDefault ==
    [builtins |-> None, steps |-> 0, memory_holes |-> 0,
     l1_gas |-> None, l1_data_gas |-> None, total_l1_gas |-> None]

\* model::receipt::Common::default()
CommonDefault ==
    [actual_fee |-> None, price_unit |-> 0, messages_sent |-> <<>>,
     execution_resources |-> None, revert_reason |-> None]

\* Common::price_unit(), then From<model::PriceUnit> for PriceUnit: the getter of the
\* enumeration field gives the default variant for a discriminant it does not know, and
\* no error.
price_unit(common) == IF common.price_unit = 1 THEN "Fri" ELSE "Wei"

\* TryFrom<model::MessageToL1> for MsgToL1
MsgToL1TryFrom(value) ==
    [from_address |-> unwrap_or_default(value.from_address, 0),
     to_address |-> unwrap_or_default(value.to_address, 0),
     payload |-> value.payload]

execution_result(reason) ==
    IF is_some(reason) THEN [kind |-> "Reverted", reason |-> unwrap(reason)]
    ELSE [kind |-> "Succeeded"]

\* model::Receipt::default()
ReceiptDefault == [type |-> None]

\* model::Receipt::parse_model and the parse_model of the five receipt types
ReceiptErrors(self) ==
    IF is_none(self.type)
    THEN <<missing_field("Receipt::type")>>
    ELSE LET common == unwrap_or_default(unwrap(self.type).common, CommonDefault)
         IN ExecutionResourcesErrors(
                unwrap_or_default(common.execution_resources, ExecutionResourcesDefault))

parse_model(self, transaction_hash) ==
    LET tx == unwrap(self.type)
        common == unwrap_or_default(tx.common, CommonDefault)
    IN [variant |-> IF tx.variant = "DeprecatedDeploy" THEN "Deploy" ELSE tx.variant,
        transaction_hash |-> transaction_hash,
        actual_fee |-> [unit |-> price_unit(common),
                        amount |-> unwrap_or_default(common.actual_fee, 0)],
        messages_sent |-> [k \in DOMAIN common.messages_sent |->
                              MsgToL1TryFrom(common.messages_sent[k])],
        events |-> <<>>,
        execution_resources |->
            ExecutionResourcesTryFrom(
                unwrap_or_default(common.execution_resources, ExecutionResourcesDefault)),
        execution_result |-> execution_result(common.revert_reason),
        extra |-> CASE tx.variant = "L1Handler" ->
                           [message_hash |-> unwrap_or_default(tx.extra.msg_hash, 0)]
                    [] tx.variant \in {"DeprecatedDeploy", "DeployAccount"} ->
                           [contract_address |->
                                unwrap_or_default(tx.extra.contract_address, 0)]
                    [] OTHER -> [none |-> 0]]

\* TryFrom<model::TransactionWithReceipt> for TransactionWithReceipt
TransactionWithReceiptTryFrom(value) ==
    LET transaction == unwrap_or_default(value.transaction, TransactionDefault)
        errors == TransactionErrors(transaction)
                  \o ReceiptErrors(unwrap_or_default(value.receipt, ReceiptDefault))
    IN IF errors # <<>>
       THEN [error |-> Some(Head(errors)), value |-> None]
       ELSE [error |-> None,
             value |-> Some(
                 [transaction |-> TxnTryFrom(unwrap(transaction.txn)),
                  receipt |-> parse_model(unwrap(value.receipt),
                                          unwrap(transaction.transaction_hash))])]

\* ---- the values the conversions are applied to
ReceiptVariantOf(variant) ==
    CASE variant \in {"InvokeV0", "InvokeV1", "InvokeV3"} -> "Invoke"
      [] variant \in {"DeclareV0", "DeclareV1", "DeclareV2", "DeclareV3"} -> "Declare"
      [] variant = "Deploy" -> "Deploy"
      [] variant \in {"DeployAccountV1", "DeployAccountV3"} -> "DeployAccount"
      [] variant = "L1Handler" -> "L1Handler"

DataAvailabilityMode == {"L1", "L2"}

\* The values of the fields of a transaction that are not plain copies.
TxnSpecials(variant) ==
    CASE variant \in V3Txn ->
             {[resource_bounds |->
                   [l1_gas |-> [max_amount |-> amount, max_price_per_unit |-> price],
                    l2_gas |-> [max_amount |-> 0, max_price_per_unit |-> 0]],
               tip |-> 1,
               nonce_data_availability_mode |-> nonce_mode,
               fee_data_availability_mode |-> fee_mode] :
                 amount \in {0, U64Max}, price \in {0, U128Max},
                 nonce_mode \in DataAvailabilityMode, fee_mode \in DataAvailabilityMode}
      [] variant = "Deploy" ->
             {[version |-> version] : version \in {0, U32Max, U32Max + 1, FeltMax}}
      [] variant = "L1Handler" ->
             {[version |-> version, nonce |-> nonce] :
                 version \in {0, 1}, nonce \in {0, U64Max}}
      [] OTHER -> {[none |-> 0]}

Transactions ==
    UNION {{[variant |-> variant,
             felts |-> [name \in InternalNames(FeltFields(variant)) |-> felt],
             vecs |-> [name \in InternalNames(VecFields(variant)) |-> <<felt>>],
             signature |-> IF HasSignature(variant) THEN <<felt>> ELSE <<>>,
             special |-> special] :
               felt \in {0, FeltMax}, special \in TxnSpecials(variant)} :
           variant \in Txn}

Counters == {None, Some(0), Some(1), Some(U32Max), Some(U64Max)}

L1Gas == {[l1_gas |-> l1_gas, l1_data_gas |-> l1_data_gas] :
             l1_gas \in {0, U128Max}, l1_data_gas \in {0, 1}}

\* An ExecutionResources that the encoder and the decoder keep as it is, and the values
\* that differ from it in one field or in the gas totals.
PlainExecutionResources ==
    [steps |-> 1,
     memory_holes |-> Some(1),
     builtins |-> [name \in InternalNames(BuiltinPairs) |-> Some(1)],
     segment_arena_builtin |-> None,
     data_availability |-> L1GasDefault,
     total_gas_consumed |-> L1GasDefault]

ExecutionResourcesValues ==
    {[PlainExecutionResources EXCEPT !.steps = steps] : steps \in {0, U32Max, U64Max}}
    \cup {[PlainExecutionResources EXCEPT !.memory_holes = counter] : counter \in Counters}
    \cup {[PlainExecutionResources EXCEPT !.builtins[name] = counter] :
              name \in InternalNames(BuiltinPairs), counter \in Counters}
    \cup {[PlainExecutionResources EXCEPT !.segment_arena_builtin = counter] :
              counter \in {None, Some(1)}}
    \cup {[PlainExecutionResources EXCEPT !.data_availability = gas,
                                          !.total_gas_consumed = total] :
              gas \in L1Gas, total \in L1Gas}

MsgToL1 == [from_address |-> 1, to_address |-> 2, payload |-> <<3>>]

Event == [from_address |-> 1, keys |-> <<2>>, data |-> <<3>>]

ReceiptExtra(variant) ==
    CASE variant = "L1Handler" -> [message_hash |-> 1]
      [] variant \in {"Deploy", "DeployAccount"} -> [contract_address |-> 1]
      [] OTHER -> [none |-> 0]

PlainReceipt(variant, transaction_hash) ==
    [variant |-> variant,
     transaction_hash |-> transaction_hash,
     actual_fee |-> [unit |-> "Wei", amount |-> 1],
     messages_sent |-> <<>>,
     events |-> <<>>,
     execution_resources |-> PlainExecutionResources,
     execution_result |-> [kind |-> "Succeeded"],
     extra |-> ReceiptExtra(variant)]

Receipts(variant, transaction_hash) ==
    LET plain == PlainReceipt(variant, transaction_hash)
    IN {[plain EXCEPT !.execution_resources = resources] :
            resources \in ExecutionResourcesValues}
       \cup {[plain EXCEPT !.actual_fee = [unit |-> unit, amount |-> amount]] :
                 unit \in {"Wei", "Fri"}, amount \in {0, FeltMax}}
       \cup {[plain EXCEPT !.messages_sent = messages] : messages \in {<<>>, <<MsgToL1>>}}
       \cup {[plain EXCEPT !.events = events] : events \in {<<>>, <<Event>>}}
       \cup {[plain EXCEPT !.execution_result = execution] :
                 execution \in {[kind |-> "Succeeded"],
                             [kind |-> "Reverted", reason |-> "reason"]}}

\* For every variant, a value with zero in its Felt fields that the encoder takes; and a
\* Deploy transaction the encoder panics on.
PlainValue(variant) ==
    [transaction |-> CHOOSE transaction \in Transactions :
                         /\ transaction.variant = variant
                         /\ transaction.felts = [name \in DOMAIN transaction.felts |-> 0]
                         /\ TxnPanics(transaction) = <<>>,
     receipt |-> PlainReceipt(ReceiptVariantOf(variant), 1)]

PanickingValue ==
    [transaction |-> CHOOSE transaction \in Transactions :
                         transaction.variant = "Deploy" /\ TxnPanics(transaction) # <<>>,
     receipt |-> PlainReceipt("Deploy", 1)]

\* The internal values: every transaction with the receipts of its kind.
TransactionsWithReceipt ==
    UNION {{[transaction |-> transaction, receipt |-> receipt] :
               receipt \in Receipts(ReceiptVariantOf(transaction.variant),
                                    1)} :
           transaction \in Transactions}

\* ---- the wire messages of a peer that does not follow the schema: a well-formed
\* message with one field removed, out of range or of an unknown variant.
WithTxn(message, txn) ==
    [message EXCEPT !.transaction = Some([unwrap(message.transaction) EXCEPT !.txn = txn])]

WithSpecial(message, special) ==
    WithTxn(message,
            Some([unwrap(unwrap(message.transaction).txn) EXCEPT !.special = special]))

WithCommon(message, common) ==
    [message EXCEPT !.receipt =
        Some([type |-> Some([unwrap(unwrap(message.receipt).type) EXCEPT
                                 !.common = common])])]

WithExecutionResources(message, resources) ==
    WithCommon(message,
               Some([unwrap(unwrap(unwrap(message.receipt).type).common) EXCEPT
                         !.execution_resources = resources]))

\* Messages with a field of message type or of Option type missing.
MissingFields(message) ==
    LET transaction == unwrap(message.transaction)
        txn == unwrap(transaction.txn)
        receipt == unwrap(unwrap(message.receipt).type)
        common == unwrap(receipt.common)
        resources == unwrap(common.execution_resources)
        bounds == unwrap(txn.special.resource_bounds)
        limits == unwrap(bounds.l1_gas)
        with_limits(l) ==
            WithSpecial(message, [txn.special EXCEPT !.resource_bounds =
                                      Some([bounds EXCEPT !.l1_gas = l])])
    IN {[message EXCEPT !.transaction = None],
        [message EXCEPT !.receipt = None],
        [message EXCEPT !.receipt = Some(ReceiptDefault)],
        [message EXCEPT !.transaction = Some([transaction EXCEPT !.transaction_hash = None])],
        WithTxn(message, None),
        WithCommon(message, None),
        WithCommon(message, Some([common EXCEPT !.actual_fee = None])),
        WithExecutionResources(message, None),
        WithExecutionResources(message, Some([resources EXCEPT !.builtins = None])),
        WithExecutionResources(message, Some([resources EXCEPT !.l1_gas = None]))}
       \cup {WithTxn(message, Some([txn EXCEPT !.felts[name] = None])) :
                 name \in DOMAIN txn.felts}
       \cup (IF HasSignature(txn.variant)
             THEN {WithTxn(message, Some([txn EXCEPT !.signature = None]))} ELSE {})
       \cup (IF txn.variant \in V3Txn
             THEN {WithSpecial(message, [txn.special EXCEPT !.resource_bounds = None]),
                   with_limits(None),
                   with_limits(Some([limits EXCEPT !.max_amount = None]))}
             ELSE {})
       \cup (IF txn.variant = "L1Handler"
             THEN {WithSpecial(message, [txn.special EXCEPT !.nonce = None])}
             ELSE {})

\* Messages with a number that does not fit the integer type of its field.
OutOfRange(message) ==
    LET txn == unwrap(unwrap(message.transaction).txn)
        resources ==
            unwrap(unwrap(unwrap(unwrap(message.receipt).type).common).execution_resources)
        bounds == unwrap(txn.special.resource_bounds)
        limits == unwrap(bounds.l1_gas)
        with_limits(l) ==
            WithSpecial(message, [txn.special EXCEPT !.resource_bounds =
                                      Some([bounds EXCEPT !.l1_gas = l])])
    IN {WithExecutionResources(message, Some([resources EXCEPT !.l1_gas = Some(U128Max + 1)])),
        WithExecutionResources(message,
                               Some([resources EXCEPT !.l1_data_gas = Some(U128Max + 1)]))}
       \cup (IF txn.variant \in V3Txn
             THEN {with_limits(Some([limits EXCEPT !.max_amount = Some(U64Max + 1)])),
                   with_limits(Some([limits EXCEPT !.max_price_per_unit =
                                         Some(U128Max + 1)]))}
             ELSE {})
       \cup (IF txn.variant = "L1Handler"
             THEN {WithSpecial(message, [txn.special EXCEPT !.nonce = Some(U64Max + 1)])}
             ELSE {})

\* Messages with a discriminant that names no variant of its enumeration.
UnknownDiscriminants(message) ==
    LET txn == unwrap(unwrap(message.transaction).txn)
        common == unwrap(unwrap(unwrap(message.receipt).type).common)
    IN {WithCommon(message, Some([common EXCEPT !.price_unit = 2]))}
       \cup (IF txn.variant \in V3Txn
             THEN {WithSpecial(message,
                               [txn.special EXCEPT !.nonce_data_availability_mode = 2]),
                   WithSpecial(message,
                               [txn.special EXCEPT !.fee_data_availability_mode = 2])}
             ELSE {})

\* The well-formed messages the malformed ones are made from: one per variant.
PlainMessages ==
    {unwrap(TransactionWithReceiptFrom(PlainValue(variant)).value) : variant \in Txn}

\* The malformed messages, each with the class of its defect.
MalformedMessages ==
    UNION {({"missing_field"} \X MissingFields(message))
           \cup ({"invalid_field"} \X OutOfRange(message))
           \cup ({"invalid_enum_variant"} \X UnknownDiscriminants(message)) :
           message \in PlainMessages}

\* ---- the conversions as steps: a value is encoded (or a malformed message arrives),
\* then the message is decoded.
Encode(value) ==
    /\ conversion.stage = "none"
    /\ LET encoded == TransactionWithReceiptFrom(value)
       IN conversion' = [NoConversion EXCEPT !.stage = "encoded",
                                             !.internal = Some(value),
                                             !.panic = encoded.panic,
                                             !.wire = encoded.value]
    /\ UNCHANGED <<syncVars, plVars, e2eVars, read_stream, sync_reply, apply_state>>

Receive(defect, message) ==
    /\ conversion.stage = "none"
    /\ conversion' = [NoConversion EXCEPT !.stage = "received", !.defect = defect,
                                          !.wire = Some(message)]
    /\ UNCHANGED <<syncVars, plVars, e2eVars, read_stream, sync_reply, apply_state>>

Decode ==
    /\ conversion.stage \in {"encoded", "received"}
    /\ is_some(conversion.wire)
    /\ LET decoded == TransactionWithReceiptTryFrom(unwrap(conversion.wire))
       IN conversion' = [conversion EXCEPT !.stage = "decoded",
                                           !.error = decoded.error,
                                           !.decoded = decoded.value]
    /\ UNCHANGED <<syncVars, plVars, e2eVars, read_stream, sync_reply, apply_state>>

NextConvert ==
    \/ \E value \in TransactionsWithReceipt : Encode(value)
    \/ \E malformed \in MalformedMessages : Receive(malformed[1], malformed[2])
    \/ Decode

\* The SyncController and the pipeline controller, constructed and never run.
SyncControllerAtRest ==
    /\ forward_pipeline = [next_input_block_n |-> 0, input_batch_size |-> 1, outstanding |-> 0]
    /\ probe = FALSE
    /\ l1_head_recv = [value |-> None, changed |-> FALSE, closed |-> FALSE]
    /\ stop_at_block_n = None
    /\ current_l1_head = None
    /\ current_probe_future = None
    /\ probe_state = DefaultProbeState
    /\ probe_wait_deadline = None
    /\ pc = "run_inner"
    /\ iter = NoIter
    /\ result = [ret |-> "none", by |-> "none"]
    /\ shutdown = FALSE
    /\ now = 0

PipelineAtRest ==
    /\ pipeline_config = [parallelization |-> 1, batch_size |-> 1, starting_block_n |-> None]
    /\ pipeline = apply_state_pipeline(1, 1, None)
    /\ pipeline_run = None
    /\ pipeline_result = "none"
    /\ scheduled = <<>>
    /\ sequential_calls = <<>>

InitConvert ==
    /\ SyncControllerAtRest
    /\ PipelineAtRest
    /\ P2pAtRest
    /\ E2eAtRest

SpecConvert == InitConvert /\ [][NextConvert]_vars

\* ====================================================================
\* read_transactions_stream (handlers_impl/transactions.rs)
\* ====================================================================
\* ---- model::TransactionsResponse: the messages of a response stream
Fin == [transaction_message |-> Some([kind |-> "Fin"])]

NoMessage == [transaction_message |-> None]

TransactionWithReceiptMessage(message) ==
    [transaction_message |-> Some([kind |-> "TransactionWithReceipt", message |-> message])]

\* Two messages that decode, to different values, and one that does not.
PlainMessage(variant) ==
    CHOOSE message \in PlainMessages : unwrap(unwrap(message.transaction).txn).variant = variant

Undecodable == WithTxn(PlainMessage("InvokeV1"), None)

StreamMessages ==
    {Fin, NoMessage, TransactionWithReceiptMessage(Undecodable)}
    \cup {TransactionWithReceiptMessage(PlainMessage(variant)) :
              variant \in {"InvokeV1", "L1Handler"}}

Streams == UNION {[1..len -> StreamMessages] : len \in 0..MaxStreamLen}

\* ---- sync_handlers::Error
EndOfStream == [kind |-> "EndOfStream", message |-> "", expected |-> 0, got |-> 0]

bad_request(message) == [kind |-> "bad_request", message |-> message, expected |-> 0, got |-> 0]

\* bad_request(format!("Expected {} messages in stream, got {}", expected, got))
bad_request_expected(expected, got) ==
    [kind |-> "bad_request", message |-> "Expected {} messages in stream, got {}",
     expected |-> expected, got |-> got]

Ok(value) == [ok |-> TRUE, value |-> Some(value), error |-> None]

Err(error) == [ok |-> FALSE, value |-> None, error |-> Some(error)]

\* Mutant: the closure with the i == 0 case only.
handle_fin_always_end_of_stream(i, transactions_count) == EndOfStream

\* Mutant: the closure without its i == 0 case.
handle_fin_always_bad_request(i, transactions_count) ==
    bad_request_expected(transactions_count, i)

\* The closure handle_fin of iteration i.
handle_fin(i, transactions_count) ==
    IF i = 0 THEN EndOfStream ELSE bad_request_expected(transactions_count, i)

\* Mutant: the item is put in front of those read before.
push_front(vec, value) == <<value>> \o vec

\* Vec::push
push(vec, value) == Append(vec, value)

\* ---- the call. stream is the whole stream the peer sends, res what is left of it.
ReadCall(res, transactions_count) ==
    /\ read_stream.stage = "none"
    /\ read_stream' = [stage |-> "loop", stream |-> res, res |-> res,
                       transactions_count |-> transactions_count,
                       i |-> 0, vec |-> <<>>, ret |-> None]
    /\ UNCHANGED <<syncVars, plVars, e2eVars, conversion, sync_reply, apply_state>>

Return(ret) == [read_stream EXCEPT !.stage = "returned", !.ret = Some(ret)]

\* One iteration of the for loop: res.next().await and what is done with its message.
ReadNext ==
    /\ read_stream.stage = "loop"
    /\ read_stream.i < read_stream.transactions_count
    /\ LET i == read_stream.i
           fin == handle_fin(i, read_stream.transactions_count)
       IN IF read_stream.res = <<>>
          THEN read_stream' = Return(Err(fin))
          ELSE LET message == Head(read_stream.res).transaction_message
                   taken == [read_stream EXCEPT !.res = Tail(read_stream.res)]
               IN IF is_none(message)
                  THEN read_stream' = [taken EXCEPT !.stage = "returned",
                                                    !.ret = Some(Err(bad_request("No message")))]
                  ELSE IF unwrap(message).kind = "Fin"
                  THEN read_stream' = [taken EXCEPT !.stage = "returned",
                                                    !.ret = Some(Err(fin))]
                  ELSE LET val == TransactionWithReceiptTryFrom(unwrap(message).message)
                       IN IF is_some(val.error)
                          THEN read_stream' =
                                   [taken EXCEPT
                                        !.stage = "returned",
                                        !.ret = Some(Err(bad_request(
                                            "Converting transaction with receipt")))]
                          ELSE read_stream' =
                                   [taken EXCEPT !.i = i + 1,
                                                 !.vec = push(taken.vec, unwrap(val.value))]
    /\ UNCHANGED <<syncVars, plVars, e2eVars, conversion, sync_reply, apply_state>>

\* The loop is over: Ok(vec).
ReadReturn ==
    /\ read_stream.stage = "loop"
    /\ read_stream.i = read_stream.transactions_count
    /\ read_stream' = Return(Ok(read_stream.vec))
    /\ UNCHANGED <<syncVars, plVars, e2eVars, conversion, sync_reply, apply_state>>

NextReadStream ==
    \/ \E res \in Streams, transactions_count \in 0..MaxCount :
           ReadCall(res, transactions_count)
    \/ ReadNext
    \/ ReadReturn

InitReadStream ==
    /\ SyncControllerAtRest
    /\ PipelineAtRest
    /\ P2pAtRest
    /\ E2eAtRest

SpecReadStream == InitReadStream /\ [][NextReadStream]_vars

\* ====================================================================
\* transactions_sync (handlers_impl/transactions.rs)
\* ====================================================================
\* ---- what the backend holds: blocks of the values PlainValue("InvokeV1") and
\* PlainValue("L1Handler"), which encode to different messages, and PanickingValue.
\* MadaraBlockInner: the transactions of a block and their receipts.
BlockInner(els) ==
    [transactions |-> [k \in DOMAIN els |-> els[k].transaction],
     receipts |-> [k \in DOMAIN els |-> els[k].receipt]]

\* Blocks of 0..MaxBlockTransactions values that encode, a block whose second value does
\* not, and a block that holds a receipt less than transactions.
BlockInners ==
    {BlockInner([k \in 1..len |-> IF k % 2 = 1 THEN PlainValue("InvokeV1")
                                  ELSE PlainValue("L1Handler")]) :
        len \in 0..MaxBlockTransactions}
    \cup {BlockInner(<<PlainValue("L1Handler"), PanickingValue>>)}
    \cup {[transactions |-> <<PlainValue("InvokeV1").transaction,
                              PlainValue("InvokeV1").transaction>>,
           receipts |-> <<PlainValue("InvokeV1").receipt>>]}

\* One item of the block stream with what get_block_inner gives for its block: the item
\* is an error, or a header whose body is read with an error, is missing, or is there.
BlockReads ==
    {[res |-> "Err", block_inner |-> "Err", body |-> None],
     [res |-> "Ok", block_inner |-> "Err", body |-> None],
     [res |-> "Ok", block_inner |-> "Ok", body |-> None]}
    \cup {[res |-> "Ok", block_inner |-> "Ok", body |-> Some(inner)] : inner \in BlockInners}

BlockStreams == UNION {[1..len -> BlockReads] : len \in 0..MaxStreamBlocks}

internal_server_error(message) ==
    [kind |-> "internal_server_error", message |-> message, expected |-> 0, got |-> 0]

\* The error of block_stream_config, and the one a failed send is turned into.
BlockStreamConfigError ==
    [kind |-> "block_stream_config", message |-> "", expected |-> 0, got |-> 0]

SendError == [kind |-> "send", message |-> "", expected |-> 0, got |-> 0]

\* Mutant: the receipts are taken from the last one backwards.
zip_reversed(transactions, receipts) ==
    [k \in 1..(IF Len(transactions) <= Len(receipts) THEN Len(transactions) ELSE Len(receipts)) |->
        [transaction |-> transactions[k], receipt |-> receipts[Len(receipts) + 1 - k]]]

\* block_inner.transactions.into_iter().zip(block_inner.receipts), as the values el.
zip(transactions, receipts) ==
    [k \in 1..(IF Len(transactions) <= Len(receipts) THEN Len(transactions) ELSE Len(receipts)) |->
        [transaction |-> transactions[k], receipt |-> receipts[k]]]

\* ---- the call
SyncCall(config_ok, stream) ==
    /\ sync_reply.stage = "none"
    /\ sync_reply' =
           IF config_ok
           THEN [NoSyncReply EXCEPT !.stage = "stream", !.blocks = stream, !.stream = stream]
           ELSE [NoSyncReply EXCEPT !.stage = "returned", !.blocks = stream,
                                    !.ret = Some(Err(BlockStreamConfigError))]
    /\ UNCHANGED <<syncVars, plVars, e2eVars, conversion, read_stream, apply_state>>

\* stream.next().await and the read of the block's body; past the last block, the Fin
\* message is sent and the call returns.
StreamNext ==
    /\ sync_reply.stage = "stream"
    /\ IF sync_reply.stream = <<>>
       THEN IF sync_reply.receiver_dropped
            THEN sync_reply' = [sync_reply EXCEPT !.stage = "returned",
                                                  !.ret = Some(Err(SendError))]
            ELSE sync_reply' = [sync_reply EXCEPT !.stage = "returned",
                                                  !.out = Append(sync_reply.out, Fin),
                                                  !.ret = Some(Ok(<<>>))]
       ELSE LET read == Head(sync_reply.stream)
                next == [sync_reply EXCEPT !.stream = Tail(sync_reply.stream)]
                fail(message) == [next EXCEPT !.stage = "returned",
                                              !.ret = Some(Err(internal_server_error(message)))]
            IN IF read.res = "Err"
               THEN sync_reply' = fail("Error while reading from block stream")
               ELSE IF read.block_inner = "Err"
               THEN sync_reply' = fail("Getting block state diff")
               ELSE IF is_none(read.body)
               THEN sync_reply' = fail("No body for block")
               ELSE LET els == zip(unwrap(read.body).transactions, unwrap(read.body).receipts)
                    IN sync_reply' = [next EXCEPT !.els = els,
                                                  !.stage = IF els = <<>> THEN "stream"
                                                            ELSE "block"]
    /\ UNCHANGED <<syncVars, plVars, e2eVars, conversion, read_stream, apply_state>>

\* One iteration of the for loop: el.into() and out.send(..).await?
SendItem ==
    /\ sync_reply.stage = "block"
    /\ LET message == TransactionWithReceiptFrom(Head(sync_reply.els))
       IN IF is_some(message.panic)
          THEN sync_reply' = [sync_reply EXCEPT !.stage = "panicked"]
          ELSE IF sync_reply.receiver_dropped
          THEN sync_reply' = [sync_reply EXCEPT !.stage = "returned",
                                                !.ret = Some(Err(SendError))]
          ELSE sync_reply' =
                   [sync_reply EXCEPT
                        !.out = Append(sync_reply.out,
                                       TransactionWithReceiptMessage(unwrap(message.value))),
                        !.els = Tail(sync_reply.els),
                        !.stage = IF Tail(sync_reply.els) = <<>> THEN "stream" ELSE "block"]
    /\ UNCHANGED <<syncVars, plVars, e2eVars, conversion, read_stream, apply_state>>

\* The peer stops reading: every later send fails.
DropReceiver ==
    /\ sync_reply.stage \in {"stream", "block"}
    /\ ~sync_reply.receiver_dropped
    /\ sync_reply' = [sync_reply EXCEPT !.receiver_dropped = TRUE]
    /\ UNCHANGED <<syncVars, plVars, e2eVars, conversion, read_stream, apply_state>>

NextTransactionsSync ==
    \/ \E config_ok \in BOOLEAN, stream \in BlockStreams : SyncCall(config_ok, stream)
    \/ StreamNext
    \/ SendItem
    \/ DropReceiver

InitTransactionsSync ==
    /\ SyncControllerAtRest
    /\ PipelineAtRest
    /\ P2pAtRest
    /\ E2eAtRest

SpecTransactionsSync == InitTransactionsSync /\ [][NextTransactionsSync]_vars

\* ====================================================================
\* ApplyStateSteps (sync2/src/apply_state.rs)
\* ====================================================================
\* Range<u64>: a block range start..end of at most MaxBatchSize blocks.
BlockRanges ==
    {[start |-> start, end |-> start + len] : start \in Blocks, len \in 0..MaxBatchSize}

\* Vec<StateDiff>: one state diff per block of the range, told apart by a number.
StateDiffs(block_range) == [1..(block_range.end - block_range.start) -> 1..2]

\* The calls of a step: a range and its state diffs.
StepInputs ==
    UNION {{<<block_range, input>> : input \in StateDiffs(block_range)} :
           block_range \in BlockRanges}

\* What BlockImporter::apply_to_global_trie returns.
ApplyResults == {Ok(<<>>), Err("apply_to_global_trie failed"), Err("storage error")}

\* ApplyOutcome::Success(())
Success == [outcome |-> "Success", output |-> <<>>]

\* Mutant: the input comes back without its first state diff.
parallel_step_dropping(block_range, input) ==
    Ok(IF input = <<>> THEN input ELSE Tail(input))

parallel_step(block_range, input) == Ok(input)

\* Mutant: an error of the importer is swallowed.
sequential_step_always_success(block_range, input, applied) == Ok(Success)

\* applied is what self.importer.apply_to_global_trie(block_range, input).await gave.
sequential_step(block_range, input, applied) ==
    IF applied.ok THEN Ok(Success) ELSE applied

\* Mutant: the head read is the block after the persisted one.
starting_block_n_next(head_status) ==
    IF is_some(head_status.global_trie) THEN Some(unwrap(head_status.global_trie) + 1)
    ELSE Some(0)

starting_block_n(head_status) == head_status.global_trie

\* ---- the calls the controller makes
ParallelStep(block_range, input) ==
    /\ apply_state' = [apply_state EXCEPT !.stage = "parallel_step",
                                          !.block_range = block_range,
                                          !.input = input,
                                          !.applied = None,
                                          !.ret = Some(parallel_step(block_range, input))]
    /\ UNCHANGED <<syncVars, plVars, e2eVars, conversion, read_stream, sync_reply>>

\* The importer applies the range or fails; what it leaves in the head status is its own
\* business: any head.
SequentialStep(block_range, input, applied, global_trie) ==
    /\ apply_state' = [apply_state EXCEPT
                           !.stage = "sequential_step",
                           !.block_range = block_range,
                           !.input = input,
                           !.applied = Some(applied),
                           !.head_status = [global_trie |-> global_trie],
                           !.ret = Some(sequential_step(block_range, input, applied))]
    /\ UNCHANGED <<syncVars, plVars, e2eVars, conversion, read_stream, sync_reply>>

StartingBlockN ==
    /\ apply_state' = [apply_state EXCEPT !.stage = "starting_block_n",
                                          !.block_range = [start |-> 0, end |-> 0],
                                          !.input = <<>>,
                                          !.applied = None,
                                          !.ret = Some(starting_block_n(apply_state.head_status))]
    /\ UNCHANGED <<syncVars, plVars, e2eVars, conversion, read_stream, sync_reply>>

NextApplyState ==
    \/ \E call \in StepInputs : ParallelStep(call[1], call[2])
    \/ \E call \in StepInputs, applied \in ApplyResults, global_trie \in OptBlocks :
           SequentialStep(call[1], call[2], applied, global_trie)
    \/ StartingBlockN

\* A backend on which nothing or something was applied.
InitApplyState ==
    /\ SyncControllerAtRest
    /\ PipelineAtRest
    /\ conversion = NoConversion
    /\ read_stream = NoReadStream
    /\ sync_reply = NoSyncReply
    /\ apply_state \in {[NoApplyState EXCEPT !.head_status = [global_trie |-> global_trie]] :
                           global_trie \in OptBlocks}
    /\ E2eAtRest

SpecApplyState == InitApplyState /\ [][NextApplyState]_vars

\* ---------------------------------------------------------------------
\* Properties of the conversions (SpecConvert)
\* ---------------------------------------------------------------------
\* A value that was encoded and whose message was decoded.
RoundTripDone == conversion.stage = "decoded" /\ is_some(conversion.internal)

C27_ConversionsNeverPanic ==
    /\ conversion.stage = "encoded" => is_none(conversion.panic) /\ is_some(conversion.wire)
    /\ conversion.stage = "decoded" => is_some(conversion.error) # is_some(conversion.decoded)

\* Encoding a Deploy transaction whose version does not fit u32 panics.
C27_Witness ==
    /\ conversion.stage = "encoded"
    /\ unwrap(conversion.internal).transaction.variant = "Deploy"
    /\ is_none(felt_to_u32(unwrap(conversion.internal).transaction.special.version))
    /\ conversion.panic = Some("DeployTransaction version is not an u32")
    /\ is_none(conversion.wire)

\* C26: decoding a malformed message fails with the typed error of its defect: a
\* missing field gives a missing-field error, a number that does not fit its integer
\* type an invalid-field error, an unknown discriminant (data-availability mode,
\* price unit) an invalid-enum-variant error.
C26_MalformedMessageIsRejected ==
    conversion.stage = "decoded" /\ conversion.defect # "none" =>
        /\ is_some(conversion.error)
        /\ unwrap_or_default(conversion.error, missing_field("")).error = conversion.defect

\* A receipt with a price unit that names no variant is decoded, as a fee in Wei.
C26_Witness ==
    /\ conversion.stage = "decoded"
    /\ conversion.defect = "invalid_enum_variant"
    /\ unwrap(unwrap(unwrap(unwrap(conversion.wire).receipt).type).common).price_unit = 2
    /\ is_none(conversion.error)
    /\ unwrap(conversion.decoded).receipt.actual_fee.unit = "Wei"

\* ---------------------------------------------------------------------
\* Properties of read_transactions_stream (SpecReadStream)
\* ---------------------------------------------------------------------
\* A message that carries an item that decodes.
IsItem(response) ==
    IF is_none(response.transaction_message) THEN FALSE
    ELSE IF unwrap(response.transaction_message).kind # "TransactionWithReceipt" THEN FALSE
    ELSE is_none(TransactionWithReceiptTryFrom(unwrap(response.transaction_message).message).error)

\* The items a stream delivers before its first message that is not one, or its end.
Delivered(stream) ==
    CHOOSE k \in 0..Len(stream) :
        /\ \A j \in 1..k : IsItem(stream[j])
        /\ IF k = Len(stream) THEN TRUE ELSE ~IsItem(stream[k + 1])

\* The stream terminates, by its end or by a Fin message, right after its items.
Terminates(stream) ==
    IF Delivered(stream) = Len(stream) THEN TRUE ELSE stream[Delivered(stream) + 1] = Fin

\* The call has returned and the stream terminated before transactions_count items.
ShortStreamRead ==
    /\ read_stream.stage = "returned"
    /\ read_stream.transactions_count >= 1
    /\ Terminates(read_stream.stream)
    /\ Delivered(read_stream.stream) < read_stream.transactions_count

\* C23 as the specification states it: whenever at least one item is expected and the
\* stream terminates after i < N items, the call fails with the bad-request error that
\* reports the shortfall.
C23_ShortStreamIsBadRequest ==
    ShortStreamRead =>
        read_stream.ret = Some(Err(bad_request_expected(read_stream.transactions_count,
                                                        Delivered(read_stream.stream))))

\* C23, amended: a stream that terminates after i < N items makes the call fail, never
\* succeed and never return a partial list; the error is the bad-request error reporting
\* the shortfall when 1 <= i, and EndOfStream when i = 0.
C23_ShortStreamFails ==
    ShortStreamRead =>
        /\ is_some(read_stream.ret)
        /\ ~unwrap(read_stream.ret).ok
        /\ is_none(unwrap(read_stream.ret).value)
        /\ unwrap(read_stream.ret).error =
               Some(IF Delivered(read_stream.stream) = 0
                    THEN EndOfStream
                    ELSE [kind |-> "bad_request",
                          message |-> "Expected {} messages in stream, got {}",
                          expected |-> read_stream.transactions_count,
                          got |-> Delivered(read_stream.stream)])

\* Two items were delivered of the three expected, then Fin: bad request, got 2.
C23_Witness ==
    /\ ShortStreamRead
    /\ read_stream.transactions_count = 3
    /\ Delivered(read_stream.stream) = 2
    /\ Len(read_stream.stream) = 3
    /\ read_stream.stream[3] = Fin
    /\ unwrap(unwrap(read_stream.ret).error).kind = "bad_request"
    /\ unwrap(unwrap(read_stream.ret).error).got = 2

\* What the decoder gives for the message of a stream item.
Decoded(response) ==
    unwrap(TransactionWithReceiptTryFrom(unwrap(response.transaction_message).message).value)

\* The message the call stopped at is one without payload, or an item that does not
\* decode.
StoppedAtBadMessage ==
    /\ read_stream.stage = "returned"
    /\ Delivered(read_stream.stream) < read_stream.transactions_count
    /\ ~Terminates(read_stream.stream)

\* C28: an Ok result holds exactly transactions_count items, the k-th being the
\* decoding of the k-th message; exactly that many messages were taken from the stream,
\* whatever follows them, a Fin or not. A message without payload or an item that does
\* not decode, among the messages read, fails the call with a bad-request error.
C28_OkResultIsTheFirstItems ==
    /\ read_stream.stage = "returned" /\ unwrap(read_stream.ret).ok =>
           LET vec == unwrap(unwrap(read_stream.ret).value)
               stream == read_stream.stream
               n == read_stream.transactions_count
           IN /\ Len(vec) = n
              /\ Len(stream) >= n
              /\ \A k \in 1..n : IsItem(stream[k]) /\ vec[k] = Decoded(stream[k])
              /\ read_stream.res = SubSeq(stream, n + 1, Len(stream))
    /\ StoppedAtBadMessage =>
           LET stopped_at == read_stream.stream[Delivered(read_stream.stream) + 1]
           IN /\ read_stream.ret =
                     Some(Err(bad_request(IF stopped_at = NoMessage THEN "No message"
                                          ELSE "Converting transaction with receipt")))
              /\ read_stream.res =
                     SubSeq(read_stream.stream, Delivered(read_stream.stream) + 2,
                            Len(read_stream.stream))

\* Two different items were asked for and read; the third message, which is no Fin, is
\* left in the stream.
C28_Witness ==
    /\ read_stream.stage = "returned"
    /\ read_stream.transactions_count = 2
    /\ unwrap(read_stream.ret).ok
    /\ Len(read_stream.stream) = 3
    /\ read_stream.stream[1] # read_stream.stream[2]
    /\ read_stream.stream[3] = NoMessage
    /\ read_stream.res = <<NoMessage>>
    /\ unwrap(unwrap(read_stream.ret).value) =
           <<Decoded(read_stream.stream[1]), Decoded(read_stream.stream[2])>>

\* C29: with transactions_count = 0 the call returns Ok with an empty list and takes
\* no message from the stream, whatever the stream holds; EndOfStream is returned only
\* when at least one item was expected and the stream ended, or gave Fin, before any
\* item.
C29_ZeroCountAndEndOfStream ==
    read_stream.stage = "returned" =>
        /\ read_stream.transactions_count = 0 =>
               /\ read_stream.ret = Some(Ok(<<>>))
               /\ read_stream.res = read_stream.stream
        /\ read_stream.ret = Some(Err(EndOfStream)) =>
               /\ read_stream.transactions_count >= 1
               /\ read_stream.vec = <<>>
               /\ IF read_stream.stream = <<>> THEN TRUE
                  ELSE Head(read_stream.stream) = Fin

\* Nothing was asked of a stream that holds items: Ok, empty, the stream untouched.
C29_Witness ==
    /\ read_stream.stage = "returned"
    /\ read_stream.transactions_count = 0
    /\ Len(read_stream.stream) = MaxStreamLen
    /\ \A k \in 1..MaxStreamLen : IsItem(read_stream.stream[k])
    /\ read_stream.ret = Some(Ok(<<>>))
    /\ read_stream.res = read_stream.stream

\* ---------------------------------------------------------------------
\* Properties of transactions_sync (SpecTransactionsSync)
\* ---------------------------------------------------------------------
\* The messages of the pairs of one block, in the order of the block.
BlockMessages(body) ==
    LET len == IF Len(body.transactions) <= Len(body.receipts)
               THEN Len(body.transactions) ELSE Len(body.receipts)
    IN [k \in 1..len |->
           TransactionWithReceiptMessage(
               unwrap(TransactionWithReceiptFrom(
                          [transaction |-> body.transactions[k],
                           receipt |-> body.receipts[k]]).value))]

\* The messages of all blocks, in the order of the block stream.
AllMessages ==
    LET upto[n \in 0..Len(sync_reply.blocks)] ==
            IF n = 0 THEN <<>>
            ELSE upto[n - 1] \o BlockMessages(unwrap(sync_reply.blocks[n].body))
    IN upto[Len(sync_reply.blocks)]

SyncSucceeded ==
    /\ sync_reply.stage = "returned"
    /\ unwrap(sync_reply.ret).ok

\* C24: a successful reply is one TransactionWithReceipt message per (transaction,
\* receipt) pair of each block, in block-stream order and in-block order, followed by
\* one Fin, the last message; a reply that holds a Fin is one of a call that succeeded,
\* so a call that fails sends no Fin.
C24_FinMeansComplete ==
    /\ SyncSucceeded => sync_reply.out = AllMessages \o <<Fin>>
    /\ \A k \in DOMAIN sync_reply.out :
           sync_reply.out[k] = Fin => k = Len(sync_reply.out) /\ SyncSucceeded
    /\ sync_reply.stage = "panicked" \/ (sync_reply.stage = "returned" /\ ~SyncSucceeded) =>
           \A k \in DOMAIN sync_reply.out : sync_reply.out[k] # Fin

\* Two blocks, of two pairs and of one, were sent and then Fin.
C24_Witness ==
    /\ SyncSucceeded
    /\ Len(sync_reply.blocks) = 2
    /\ Len(unwrap(sync_reply.blocks[1].body).receipts) = 2
    /\ unwrap(sync_reply.blocks[1].body).receipts[1]
           # unwrap(sync_reply.blocks[1].body).receipts[2]
    /\ Len(unwrap(sync_reply.blocks[2].body).receipts) = 1
    /\ Len(sync_reply.out) = 4
    /\ sync_reply.out[4] = Fin

\* ---------------------------------------------------------------------
\* Properties of ApplyStateSteps (SpecApplyState)
\* ---------------------------------------------------------------------
\* C30: parallel_step returns its input vector unchanged for every range;
\* sequential_step returns ApplyOutcome::Success exactly when applying the range to the
\* global trie succeeded and returns the importer's error otherwise, so it never returns
\* another outcome; starting_block_n returns the persisted global-trie head, None when
\* nothing was applied.
C30_ApplyStateSteps ==
    /\ apply_state.stage = "parallel_step" =>
           apply_state.ret = Some([ok |-> TRUE, value |-> Some(apply_state.input),
                                   error |-> None])
    /\ apply_state.stage = "sequential_step" =>
           LET ret == unwrap(apply_state.ret)
               applied == unwrap(apply_state.applied)
           IN /\ ret.ok <=> applied.ok
              /\ ret.ok => ret.value = Some([outcome |-> "Success", output |-> <<>>])
              /\ ~ret.ok => ret.error = applied.error /\ is_none(ret.value)
    /\ apply_state.stage = "starting_block_n" =>
           apply_state.ret = Some(apply_state.head_status.global_trie)

\* The importer failed on a range of two state diffs: the step returned its error.
C30_Witness ==
    /\ apply_state.stage = "sequential_step"
    /\ Len(apply_state.input) = 2
    /\ apply_state.block_range = [start |-> 1, end |-> 3]
    /\ apply_state.applied = Some(Err("storage error"))
    /\ apply_state.ret = Some(Err("storage error"))

\* =====================================================================
\* e2e harness: Server (e2e/servers/lib.rs)
\* =====================================================================
\* `process` is the Option<Child> field; `child` is the exit status of the spawned
\* process itself (None while it runs), which outlives the field; `signals` are the
\* signals issued to it; `connects` counts the TcpStream::connect calls that failed;
\* `started` is what start_process returned, `last` the last call of stop or
\* send_signal and its result, `seen` the last answers of pid / has_exited /
\* is_running.

\* ---- ServerError
StartupFailed == [kind |-> "StartupFailed"]
ProcessExited(status) == [kind |-> "ProcessExited", status |-> status]
ConnectionTimeout(attempts) == [kind |-> "ConnectionTimeout", attempts |-> attempts]
Io == [kind |-> "Io"]
ProcessNotRunning == [kind |-> "ProcessNotRunning"]

ExitStatuses == {"exit 0", "exit 1", "signal"}

Child == [id |-> "child"]

\* self.process.as_ref().map(|p| p.id())
pid(self) == {p.id : p \in self.process}

\* try_wait() gives Ok(status), status None while the child runs, or Err.
has_exited(self, try_wait_ok) ==
    IF is_some(self.process)
    THEN IF try_wait_ok THEN self.child ELSE None
    ELSE None

is_running(self, try_wait_ok) ==
    is_some(self.process) /\ is_none(has_exited(self, try_wait_ok))

\* Mutant: stop signals the child but leaves it in the field.
stop_taken_keeping_process(self, kill_spawn_ok) ==
    [self EXCEPT !.signals = Append(@, IF kill_spawn_ok THEN "TERM" ELSE "KILL"),
                 !.stops = @ + 1,
                 !.stage = "stopping",
                 !.last = [call |-> "stop", ret |-> None]]

\* stop, `if let Some(mut process) = self.process.take()` taken, up to process.wait():
\* `kill -s TERM pid` is spawned and waited for, or the child is killed directly when
\* that command cannot be spawned.
stop_taken(self, kill_spawn_ok) ==
    [self EXCEPT !.process = None,
                 !.signals = Append(@, IF kill_spawn_ok THEN "TERM" ELSE "KILL"),
                 !.stops = @ + 1,
                 !.stage = "stopping",
                 !.last = [call |-> "stop", ret |-> None]]

\* stop on a server whose process was taken before: nothing to do.
stop_not_taken(self) ==
    [self EXCEPT !.stops = @ + 1, !.last = [call |-> "stop", ret |-> Some(Ok("unit"))]]

\* Drop for Server: let _ = self.stop().
drop(self, kill_spawn_ok) ==
    IF is_some(self.process)
    THEN [stop_taken(self, kill_spawn_ok) EXCEPT !.dropping = TRUE]
    ELSE [stop_not_taken(self) EXCEPT !.dropping = TRUE, !.stage = "gone"]

\* Server::start_process up to the first await of wait_till_started. A failed spawn
\* returns StartupFailed and there is no Server.
StartProcess(spawn_ok, connection_attempts) ==
    /\ server.stage = "none"
    /\ server' =
           IF spawn_ok
           THEN [server EXCEPT !.stage = "connecting",
                               !.process = Some(Child),
                               !.config = [connection_attempts |-> connection_attempts],
                               !.attempts = connection_attempts]
           ELSE [server EXCEPT !.stage = "gone",
                               !.started = Some(Err(StartupFailed))]
    /\ UNCHANGED <<syncVars, plVars, p2pVars, setup>>

\* Mutant: the attempt counter is decremented before it is compared with zero.
wait_till_started_failed_decrementing_first(self, try_wait_ok) ==
    LET status == has_exited(self, try_wait_ok)
    IN IF is_some(status)
       THEN [ret |-> Some(Err(ProcessExited(unwrap(status)))), attempts |-> self.attempts]
       ELSE IF self.attempts - 1 = 0
            THEN [ret |-> Some(Err(ConnectionTimeout(self.config.connection_attempts))),
                  attempts |-> self.attempts - 1]
            ELSE [ret |-> None, attempts |-> self.attempts - 1]

\* The Err(_) arm of one pass of the loop of wait_till_started, and the decrement
\* after the match: what the pass returns (None: sleep and go round again) and the
\* counter it leaves.
wait_till_started_failed(self, try_wait_ok) ==
    LET status == has_exited(self, try_wait_ok)
    IN IF is_some(status)
       THEN [ret |-> Some(Err(ProcessExited(unwrap(status)))), attempts |-> self.attempts]
       ELSE IF self.attempts = 0
            THEN [ret |-> Some(Err(ConnectionTimeout(self.config.connection_attempts))),
                  attempts |-> self.attempts]
            ELSE [ret |-> None, attempts |-> self.attempts - 1]

\* One pass of the loop of wait_till_started. On Ok start_process returns the server;
\* on an error the `?` of start_process returns it and drops the server.
Connect(connected, try_wait_ok, kill_spawn_ok) ==
    /\ server.stage = "connecting"
    /\ server' =
           IF connected
           THEN [server EXCEPT !.stage = "held", !.started = Some(Ok("server"))]
           ELSE LET pass == wait_till_started_failed(server, try_wait_ok)
                    failed == [server EXCEPT !.connects = @ + 1,
                                             !.attempts = pass.attempts]
                IN IF is_some(pass.ret)
                   THEN [drop(failed, kill_spawn_ok) EXCEPT !.started = pass.ret]
                   ELSE failed
    /\ UNCHANGED <<syncVars, plVars, p2pVars, setup>>

\* The child process exits, by itself or on a signal.
ChildExits(status) ==
    /\ server.stage \in {"connecting", "held", "stopping"}
    /\ is_none(server.child)
    /\ server' = [server EXCEPT !.child = Some(status)]
    /\ UNCHANGED <<syncVars, plVars, p2pVars, setup>>

\* pub fn stop(&mut self), up to process.wait() when there is a process to take.
Stop(kill_spawn_ok) ==
    /\ server.stage = "held"
    /\ server.stops < MaxStops
    /\ server' = IF is_some(server.process)
                 THEN stop_taken(server, kill_spawn_ok)
                 ELSE stop_not_taken(server)
    /\ UNCHANGED <<syncVars, plVars, p2pVars, setup>>

\* let _ = process.wait(); Ok(()): the child has exited. After the stop run by Drop
\* the server is gone.
StopReturns ==
    /\ server.stage = "stopping"
    /\ is_some(server.child)
    /\ server' = [server EXCEPT !.stage = IF server.dropping THEN "gone" ELSE "held",
                                !.last = [call |-> "stop", ret |-> Some(Ok("unit"))]]
    /\ UNCHANGED <<syncVars, plVars, p2pVars, setup>>

\* pub fn send_signal(&self, signal): the kill command is spawned and waited for.
SendSignal(signal, outcome) ==
    /\ server.stage = "held"
    /\ Len(server.signals) < MaxSignals
    /\ server' =
           IF is_some(server.process)
           THEN CASE outcome = "ok" ->
                         [server EXCEPT !.signals = Append(@, signal),
                                        !.last = [call |-> "send_signal",
                                                  ret |-> Some(Ok("unit"))]]
                  [] outcome = "wait failed" ->
                         [server EXCEPT !.signals = Append(@, signal),
                                        !.last = [call |-> "send_signal",
                                                  ret |-> Some(Err(Io))]]
                  [] OTHER ->
                         [server EXCEPT !.last = [call |-> "send_signal",
                                                  ret |-> Some(Err(Io))]]
           ELSE [server EXCEPT !.last = [call |-> "send_signal",
                                         ret |-> Some(Err(ProcessNotRunning))]]
    /\ UNCHANGED <<syncVars, plVars, p2pVars, setup>>

\* The owner asks pid(), has_exited() and is_running().
Observe(try_wait_ok) ==
    /\ server.stage = "held"
    /\ server' = [server EXCEPT !.seen = Some([pid |-> pid(server),
                                               has_exited |-> has_exited(server, try_wait_ok),
                                               is_running |-> is_running(server, try_wait_ok)])]
    /\ UNCHANGED <<syncVars, plVars, p2pVars, setup>>

\* The owner drops the server.
Drop(kill_spawn_ok) ==
    /\ server.stage = "held"
    /\ server' = drop(server, kill_spawn_ok)
    /\ UNCHANGED <<syncVars, plVars, p2pVars, setup>>

NextServer ==
    \/ \E spawn_ok \in BOOLEAN, connection_attempts \in 0..MaxAttempts :
           StartProcess(spawn_ok, connection_attempts)
    \/ \E connected, try_wait_ok, kill_spawn_ok \in BOOLEAN :
           Connect(connected, try_wait_ok, kill_spawn_ok)
    \/ \E status \in ExitStatuses : ChildExits(status)
    \/ \E kill_spawn_ok \in BOOLEAN : Stop(kill_spawn_ok)
    \/ StopReturns
    \/ \E signal \in {"HUP", "TERM"}, outcome \in {"ok", "spawn failed", "wait failed"} :
           SendSignal(signal, outcome)
    \/ \E try_wait_ok \in BOOLEAN : Observe(try_wait_ok)
    \/ \E kill_spawn_ok \in BOOLEAN : Drop(kill_spawn_ok)

InitServer ==
    /\ SyncControllerAtRest
    /\ PipelineAtRest
    /\ P2pAtRest
    /\ E2eAtRest

SpecServer == InitServer /\ [][NextServer]_vars
\* =====================================================================
\* e2e harness: Setup (e2e/src/setup.rs)
\* =====================================================================
\* `started` lists, in order, what the setup has started successfully (for the
\* orchestrator, with the configuration it was started with); `dropped` lists the
\* service values that went out of scope; `phases` lists the phases of
\* run_complete_setup that began; `stopped` is what stop_all stopped.

\* ---- SetupError
SetupTimedOut(message) == [kind |-> "Timeout", message |-> message]
DependencyFailed(message) == [kind |-> "DependencyFailed", message |-> message]
ContextFailed(message) == [kind |-> "ContextFailed", message |-> message]
SetupStartupFailed(message) == [kind |-> "StartupFailed", message |-> message]
ServiceError(service) == [kind |-> service, message |-> "service error"]

Layers == {"L2", "L3"}

\* The body of run_complete_setup, in order.
Phases == <<"validate_dependencies", "check_existing_databases",
            "start_infrastructure_services", "start_core_services",
            "wait_for_services_ready", "run_setup_validation">>

PhaseNames == {Phases[i] : i \in 1..Len(Phases)}

\* ---- OrchestratorConfig (e2e/servers/orchestrator.rs)
OrchestratorConfigDefault ==
    [mode |-> "Run", layer |-> "L2", aws_event_bridge |-> FALSE,
     event_bridge_type |-> None, settle_on_ethereum |-> TRUE,
     settle_on_starknet |-> FALSE, da_on_ethereum |-> TRUE, da_on_starknet |-> FALSE,
     mongodb |-> TRUE, atlantic |-> FALSE]

setup_l2_config ==
    [OrchestratorConfigDefault EXCEPT !.mode = "Setup", !.layer = "L2",
                                      !.aws_event_bridge = TRUE,
                                      !.event_bridge_type = Some("rule")]

setup_l3_config ==
    [OrchestratorConfigDefault EXCEPT !.mode = "Setup", !.layer = "L3",
                                      !.aws_event_bridge = TRUE,
                                      !.event_bridge_type = Some("rule")]

run_l2_config ==
    [OrchestratorConfigDefault EXCEPT !.mode = "Run", !.layer = "L2",
                                      !.settle_on_ethereum = TRUE,
                                      !.da_on_ethereum = TRUE,
                                      !.mongodb = TRUE, !.atlantic = TRUE]

run_l3_config ==
    [OrchestratorConfigDefault EXCEPT !.mode = "Run", !.layer = "L3",
                                      !.settle_on_starknet = TRUE,
                                      !.da_on_starknet = TRUE,
                                      !.mongodb = TRUE, !.atlantic = TRUE]

\* let orchestrator_setup_config = match self.config.layer { ... }
orchestrator_setup_config(layer) ==
    IF layer = "L2" THEN setup_l2_config ELSE setup_l3_config

\* let orchestrator_run_config = match Layer::L2 { ... }: the scrutinee is the
\* constant Layer::L2, not the configured layer.
orchestrator_run_config(layer) ==
    LET scrutinee == "L2"
    IN IF scrutinee = "L2" THEN run_l2_config ELSE run_l3_config

\* ---- Setup
ServiceFields == <<"anvil", "localstack", "mongo", "pathfinder", "orchestrator",
                   "sequencer", "bootstrapper">>

\* pub fn is_ready(&self) -> bool
is_ready(self) ==
    /\ is_some(self.anvil)
    /\ is_some(self.localstack)
    /\ is_some(self.mongo)
    /\ is_some(self.pathfinder)
    /\ is_some(self.orchestrator)
    /\ is_some(self.sequencer)
    /\ is_some(self.bootstrapper)

\* The services stop_all stops when every stop succeeds: the fields that hold one,
\* from bootstrapper back to anvil.
stop_all(self) ==
    LET held(field) == IF is_some(self[field]) THEN <<field>> ELSE <<>>
    IN held("bootstrapper") \o held("sequencer") \o held("orchestrator")
           \o held("pathfinder") \o held("mongo") \o held("localstack")
           \o held("anvil")

\* The phase after this one; "returned" after the last.
next_phase(phase) ==
    LET i == CHOOSE k \in 1..Len(Phases) : Phases[k] = phase
    IN IF i < Len(Phases) THEN Phases[i + 1] ELSE "returned"

\* A phase returned Ok: the next one is up, or run_complete_setup returns Ok.
Passed(self) ==
    LET next == next_phase(self.stage)
    IN [self EXCEPT !.stage = next,
                    !.join_set = {},
                    !.services = <<>>,
                    !.ret = IF next = "returned" THEN Some(Ok("setup")) ELSE None]

\* Mutant: the error of a phase is recorded but the next phase runs all the same.
FailedGoingOn(self, error) ==
    [self EXCEPT !.stage = next_phase(self.stage),
                 !.join_set = {},
                 !.dropped = @ \o self.services,
                 !.services = <<>>,
                 !.ret = Some(Err(error))]

\* A phase returned an error, or the timeout fired: `?` hands the error to the caller
\* of l2_setup / l3_setup; the tasks still in the JoinSet are aborted.
Failed(self, error) ==
    [self EXCEPT !.stage = "returned",
                 !.join_set = {},
                 !.dropped = @ \o self.services,
                 !.services = <<>>,
                 !.ret = Some(Err(error))]

Began(self) == [self EXCEPT !.phases = Append(@, self.stage)]

\* Setup::new(config) after config.layer was set, and the entry of run_complete_setup.
new(config) ==
    [stage |-> Phases[1], config |-> config,
     anvil |-> None, localstack |-> None, mongo |-> None, pathfinder |-> None,
     orchestrator |-> None, sequencer |-> None, bootstrapper |-> None,
     join_set |-> {}, orchestrator_mode |-> "Setup", services |-> <<>>,
     started |-> <<>>, dropped |-> <<>>, phases |-> <<>>, stopped |-> <<>>,
     ret |-> None]

SetupConfigs == [layer : Layers, wait_for_sync : BOOLEAN, skip_existing_dbs : BOOLEAN]

\* pub async fn l2_setup(mut config: SetupConfig)
L2Setup(config) ==
    /\ setup.stage = "none"
    /\ setup' = new([config EXCEPT !.layer = "L2"])
    /\ UNCHANGED <<syncVars, plVars, p2pVars, server>>

\* pub async fn l3_setup(mut config: SetupConfig)
L3Setup(config) ==
    /\ setup.stage = "none"
    /\ setup' = new([config EXCEPT !.layer = "L3"])
    /\ UNCHANGED <<syncVars, plVars, p2pVars, server>>

\* validate_dependencies: two checks in a JoinSet; the first failure that join_next
\* yields is returned.
ValidateDependencies(docker_running, anvil_found, first) ==
    /\ setup.stage = "validate_dependencies"
    /\ LET failures == (IF docker_running THEN {} ELSE {"Docker not running"})
                           \cup (IF anvil_found THEN {} ELSE {"Anvil not found"})
       IN /\ first \in failures \cup {"none"}
          /\ first = "none" <=> failures = {}
          /\ setup' = IF failures = {}
                      THEN Passed(Began(setup))
                      ELSE Failed(Began(setup), DependencyFailed(first))
    /\ UNCHANGED <<syncVars, plVars, p2pVars, server>>

\* check_existing_databases: the data directory is created unless skip_existing_dbs.
CheckExistingDatabases(create_dir_ok) ==
    /\ setup.stage = "check_existing_databases"
    /\ setup' = IF ~setup.config.skip_existing_dbs /\ ~create_dir_ok
                THEN Failed(Began(setup),
                            ContextFailed("Failed to create data directory"))
                ELSE Passed(Began(setup))
    /\ UNCHANGED <<syncVars, plVars, p2pVars, server>>

\* start_infrastructure_services, up to the first join_next: three tasks are spawned.
StartInfrastructureServices ==
    /\ setup.stage = "start_infrastructure_services"
    /\ setup.stage \notin {setup.phases[i] : i \in 1..Len(setup.phases)}
    /\ setup' = [Began(setup) EXCEPT !.join_set = {"anvil", "localstack", "mongo"}]
    /\ UNCHANGED <<syncVars, plVars, p2pVars, server>>

\* A task of start_infrastructure_services ends and join_next yields its result: the
\* service is pushed onto `services`, or its error is returned. After the last one
\* the assignment loop runs, which stores nothing in self and consumes `services`.
InfrastructureJoinNext(task, ok) ==
    /\ setup.stage = "start_infrastructure_services"
    /\ task \in setup.join_set
    /\ setup' =
           IF ok
           THEN LET joined == [setup EXCEPT !.join_set = @ \ {task},
                                            !.started = Append(@, [service |-> task]),
                                            !.services = Append(@, task)]
                IN IF joined.join_set = {}
                   THEN Passed([joined EXCEPT !.dropped = @ \o joined.services])
                   ELSE joined
           ELSE Failed(setup, ServiceError(task))
    /\ UNCHANGED <<syncVars, plVars, p2pVars, server>>

\* start_core_services, up to the first join_next: four tasks are spawned.
StartCoreServices ==
    /\ setup.stage = "start_core_services"
    /\ setup.stage \notin {setup.phases[i] : i \in 1..Len(setup.phases)}
    /\ setup' = [Began(setup) EXCEPT
                     !.join_set = {"pathfinder", "orchestrator", "sequencer",
                                   "bootstrapper"},
                     !.orchestrator_mode = "Setup"]
    /\ UNCHANGED <<syncVars, plVars, p2pVars, server>>

\* The orchestrator task: OrchestratorService::start(orchestrator_setup_config)
\* returned. On Ok the task goes on to run mode, on an error it ends and join_next
\* yields the error.
OrchestratorSetupReturned(ok) ==
    /\ setup.stage = "start_core_services"
    /\ "orchestrator" \in setup.join_set
    /\ setup.orchestrator_mode = "Setup"
    /\ setup' =
           IF ok
           THEN [setup EXCEPT
                     !.orchestrator_mode = "Run",
                     !.started = Append(@, [service |-> "orchestrator",
                                            config |-> orchestrator_setup_config(
                                                           setup.config.layer)])]
           ELSE Failed(setup, ServiceError("orchestrator"))
    /\ UNCHANGED <<syncVars, plVars, p2pVars, server>>

\* What a task of start_core_services started.
CoreService(task, layer) ==
    IF task = "orchestrator"
    THEN [service |-> task, config |-> orchestrator_run_config(layer)]
    ELSE [service |-> task]

\* A task of start_core_services ends and join_next yields its result; the service
\* is bound to _service and dropped. The sequencer and the bootstrapper are
\* placeholders, whose start always succeeds.
CoreJoinNext(task, ok) ==
    /\ setup.stage = "start_core_services"
    /\ task \in setup.join_set
    /\ task = "orchestrator" => setup.orchestrator_mode = "Run"
    /\ task \in {"sequencer", "bootstrapper"} => ok
    /\ setup' =
           IF ok
           THEN LET joined == [setup EXCEPT
                                   !.join_set = @ \ {task},
                                   !.started = Append(@, CoreService(task,
                                                             setup.config.layer)),
                                   !.dropped = Append(@, task)]
                IN IF joined.join_set = {} THEN Passed(joined) ELSE joined
           ELSE Failed(setup, ServiceError(task))
    /\ UNCHANGED <<syncVars, plVars, p2pVars, server>>

\* The readiness checks wait_for_services_ready spawns: one per service that self
\* holds, the pathfinder only if wait_for_sync.
readiness_checks(self) ==
    (IF is_some(self.mongo) THEN {"MongoDB"} ELSE {})
        \cup (IF is_some(self.localstack) THEN {"Localstack"} ELSE {})
        \cup (IF self.config.wait_for_sync /\ is_some(self.pathfinder)
              THEN {"Pathfinder"} ELSE {})

\* wait_for_services_ready: a check that runs out of attempts returns Timeout.
WaitForServicesReady(not_ready) ==
    /\ setup.stage = "wait_for_services_ready"
    /\ not_ready \in readiness_checks(setup) \cup {"none"}
    /\ setup' = IF not_ready = "none"
                THEN Passed(Began(setup))
                ELSE Failed(Began(setup), SetupTimedOut(not_ready))
    /\ UNCHANGED <<syncVars, plVars, p2pVars, server>>

\* The endpoints run_setup_validation connects to, in order.
ValidatedEndpoints == <<"anvil", "localstack", "pathfinder", "sequencer", "bootstrapper">>

\* run_setup_validation: the first endpoint that refuses the connection fails it.
RunSetupValidation(unresponsive) ==
    /\ setup.stage = "run_setup_validation"
    /\ setup' = IF unresponsive = "none"
                THEN Passed(Began(setup))
                ELSE Failed(Began(setup), SetupStartupFailed(unresponsive))
    /\ UNCHANGED <<syncVars, plVars, p2pVars, server>>

\* timeout(self.config.setup_timeout, ...) elapsed before the body completed.
SetupTimeout ==
    /\ setup.stage \in PhaseNames
    /\ setup' = Failed(setup, SetupTimedOut("Setup process timed out"))
    /\ UNCHANGED <<syncVars, plVars, p2pVars, server>>

\* pub async fn stop_all(&mut self), called by the owner or by Drop.
StopAll ==
    /\ setup.stage = "returned"
    /\ setup' = [setup EXCEPT !.stage = "stopped", !.stopped = stop_all(setup)]
    /\ UNCHANGED <<syncVars, plVars, p2pVars, server>>

NextSetup ==
    \/ \E config \in SetupConfigs : L2Setup(config)
    \/ \E config \in SetupConfigs : L3Setup(config)
    \/ \E docker_running, anvil_found \in BOOLEAN,
          first \in {"none", "Docker not running", "Anvil not found"} :
           ValidateDependencies(docker_running, anvil_found, first)
    \/ \E create_dir_ok \in BOOLEAN : CheckExistingDatabases(create_dir_ok)
    \/ StartInfrastructureServices
    \/ \E task \in {"anvil", "localstack", "mongo"}, ok \in BOOLEAN :
           InfrastructureJoinNext(task, ok)
    \/ StartCoreServices
    \/ \E ok \in BOOLEAN : OrchestratorSetupReturned(ok)
    \/ \E task \in {"pathfinder", "orchestrator", "sequencer", "bootstrapper"},
          ok \in BOOLEAN :
           CoreJoinNext(task, ok)
    \/ \E not_ready \in {"none", "MongoDB", "Localstack", "Pathfinder"} :
           WaitForServicesReady(not_ready)
    \/ \E unresponsive \in {"none"} \cup {ValidatedEndpoints[i] :
                                              i \in 1..Len(ValidatedEndpoints)} :
           RunSetupValidation(unresponsive)
    \/ SetupTimeout
    \/ StopAll

InitSetup ==
    /\ SyncControllerAtRest
    /\ PipelineAtRest
    /\ P2pAtRest
    /\ E2eAtRest

SpecSetup == InitSetup /\ [][NextSetup]_vars

\* ---------------------------------------------------------------------
\* Properties of Server (SpecServer)
\* ---------------------------------------------------------------------
\* What start_process returned through wait_till_started.
WaitReturned(ret) == server.started = Some(ret)

WaitTimedOut ==
    WaitReturned(Err(ConnectionTimeout(server.config.connection_attempts)))

\* C36: wait_till_started terminates: it returns Ok at the first successful
\* connection (every earlier attempt failed), ProcessExited with the exit status when
\* an attempt failed and the child had exited, and ConnectionTimeout after exactly
\* connection_attempts failed attempts, so that a waiting server has not failed more
\* often than that; the attempt counter never goes below zero.
C36_WaitTillStarted ==
    /\ server.attempts >= 0
    /\ server.attempts <= server.config.connection_attempts
    /\ server.stage = "connecting" =>
           /\ server.connects <= server.config.connection_attempts
           /\ is_none(server.started)
    /\ WaitReturned(Ok("server")) =>
           server.connects <= server.config.connection_attempts
    /\ \A status \in ExitStatuses :
           WaitReturned(Err(ProcessExited(status))) => server.child = Some(status)
    /\ WaitTimedOut => server.connects = server.config.connection_attempts

\* With connection_attempts at its highest, wait_till_started gave up after one
\* failed connection more than that, the child still running.
C36_Witness ==
    /\ WaitTimedOut
    /\ server.config.connection_attempts = MaxAttempts
    /\ server.connects = server.config.connection_attempts + 1
    /\ server.attempts = 0
    /\ is_none(server.child)

\* stop has been called at least once (by the owner or by Drop).
StopCalled == server.stops >= 1

\* A step that is a call of stop, and a step that is a call of send_signal.
StopCallStep == server'.stops = server.stops + 1

SendSignalStep == server'.last # server.last /\ server'.last.call = "send_signal"

\* C37: the first stop takes the child out of the server, signals it once and returns
\* Ok when the child has exited; from then on pid() is None, is_running() is false,
\* has_exited() is None and send_signal returns ProcessNotRunning, and every later
\* stop, the one run by Drop included, issues no signal and returns Ok at once.
C37_StopIsIdempotentAndFinal ==
    /\ [][(StopCallStep /\ ~StopCalled /\ is_some(server.process)) =>
              /\ is_none(server'.process)
              /\ Len(server'.signals) = Len(server.signals) + 1
              /\ server'.stage = "stopping"]_vars
    /\ [][(server.stage = "stopping" /\ server'.stage # "stopping") =>
              /\ is_some(server.child)
              /\ server'.last = [call |-> "stop", ret |-> Some(Ok("unit"))]]_vars
    /\ [](StopCalled =>
              /\ is_none(server.process)
              /\ pid(server) = None
              /\ \A try_wait_ok \in BOOLEAN :
                     /\ ~is_running(server, try_wait_ok)
                     /\ has_exited(server, try_wait_ok) = None)
    /\ [][(StopCalled /\ server'.seen # server.seen) =>
              server'.seen = Some([pid |-> None, has_exited |-> None,
                                   is_running |-> FALSE])]_vars
    /\ [][(StopCalled /\ SendSignalStep) =>
              server'.last.ret = Some(Err(ProcessNotRunning))]_vars
    /\ [][StopCalled => server'.signals = server.signals]_vars
    /\ [][(StopCalled /\ StopCallStep) =>
              /\ server'.last = [call |-> "stop", ret |-> Some(Ok("unit"))]
              /\ server'.child = server.child
              /\ is_none(server'.process)]_vars

\* A server that was stopped twice by its owner and then dropped: one signal was
\* issued in all, the child has exited, and the owner saw no pid after the stop.
C37_Witness ==
    /\ server.stage = "gone"
    /\ server.dropping
    /\ server.stops = MaxStops + 1
    /\ server.started = Some(Ok("server"))
    /\ server.signals = <<"TERM">>
    /\ is_some(server.child)
    /\ server.seen = Some([pid |-> None, has_exited |-> None, is_running |-> FALSE])
    /\ server.last = [call |-> "stop", ret |-> Some(Ok("unit"))]

\* ---------------------------------------------------------------------
\* Properties of Setup (SpecSetup)
\* ---------------------------------------------------------------------
\* l2_setup / l3_setup returned Ok(setup).
SetupSucceeded == setup.ret = Some(Ok("setup"))

\* The services a setup started, without the orchestrator's setup-mode run.
StartedServices ==
    {setup.started[i].service : i \in 1..Len(setup.started)}

HeldServices ==
    {ServiceFields[i] : i \in {k \in 1..Len(ServiceFields) :
                                   is_some(setup[ServiceFields[k]])}}

\* C38: a Setup returned by l2_setup or l3_setup is complete: is_ready() is true, the
\* seven services started during the setup are the ones it holds, and stop_all stops
\* exactly these, from the bootstrapper back to anvil.
C38_SetupOkIsReady ==
    /\ SetupSucceeded =>
           /\ is_ready(setup)
           /\ HeldServices = StartedServices
    /\ (SetupSucceeded /\ setup.stage = "stopped") =>
           setup.stopped = <<"bootstrapper", "sequencer", "orchestrator", "pathfinder",
                             "mongo", "localstack", "anvil">>

\* An L2 setup returned Ok after starting all seven services; it holds none of them,
\* all of them went out of scope inside the phases, and stop_all stopped nothing.
C38_Witness ==
    /\ SetupSucceeded
    /\ setup.config.layer = "L2"
    /\ StartedServices = {ServiceFields[i] : i \in 1..Len(ServiceFields)}
    /\ HeldServices = {}
    /\ ~is_ready(setup)
    /\ Len(setup.dropped) = Len(ServiceFields)
    /\ setup.stage = "stopped"
    /\ setup.stopped = <<>>

\* The errors a phase can return.
PhaseErrors(phase) ==
    CASE phase = "validate_dependencies" ->
             {DependencyFailed("Docker not running"), DependencyFailed("Anvil not found")}
      [] phase = "check_existing_databases" ->
             {ContextFailed("Failed to create data directory")}
      [] phase = "start_infrastructure_services" ->
             {ServiceError("anvil"), ServiceError("localstack"), ServiceError("mongo")}
      [] phase = "start_core_services" ->
             {ServiceError("pathfinder"), ServiceError("orchestrator")}
      [] phase = "wait_for_services_ready" ->
             {SetupTimedOut("MongoDB"), SetupTimedOut("Localstack"),
              SetupTimedOut("Pathfinder")}
      [] OTHER ->
             {SetupStartupFailed(ValidatedEndpoints[i]) : i \in 1..Len(ValidatedEndpoints)}

\* run_complete_setup returned this error.
SetupFailedWith(error) == setup.ret = Some(Err(error))

\* C39: the phases of run_complete_setup begin in the order validate dependencies,
\* check databases, start infrastructure services, start core services, wait for
\* readiness, final validation, each only while nothing has been returned and the
\* one before it has passed; Ok is returned only after all six; a returned error is
\* the timeout's or one of the last phase that began, and after it no phase begins;
\* while a phase is up the timeout can fire, and the result then is Timeout.
C39_PhasesInOrder ==
    /\ [](IsPrefix(setup.phases, Phases))
    /\ [][setup'.phases # setup.phases =>
              /\ is_none(setup.ret)
              /\ Len(setup.phases) < Len(Phases)
              /\ setup.stage = Phases[Len(setup.phases) + 1]
              /\ setup'.phases = Append(setup.phases, setup.stage)]_vars
    /\ [](SetupSucceeded => setup.phases = Phases)
    /\ []((is_some(setup.ret) /\ ~SetupSucceeded) =>
              LET error == unwrap(unwrap(setup.ret).error)
              IN IF error = SetupTimedOut("Setup process timed out")
                 THEN TRUE
                 ELSE /\ setup.phases # <<>>
                      /\ error \in PhaseErrors(setup.phases[Len(setup.phases)]))
    /\ [][is_some(setup.ret) =>
              setup'.phases = setup.phases /\ setup'.ret = setup.ret]_vars
    /\ [](setup.stage \in PhaseNames => ENABLED SetupTimeout)
    /\ [][SetupTimeout =>
              /\ SetupFailedWith(SetupTimedOut("Setup process timed out"))'
              /\ setup'.phases = setup.phases]_vars

\* The orchestrator failed in start_core_services after the three infrastructure
\* services had started: its error was returned, and neither the readiness phase nor
\* the final validation began.
C39_Witness ==
    /\ SetupFailedWith(ServiceError("orchestrator"))
    /\ setup.phases = SubSeq(Phases, 1, 4)
    /\ Len(setup.started) >= 3
    /\ setup.stage \in {"returned", "stopped"}

\* The orchestrator configurations the setup started, in order.
OrchestratorStarts ==
    LET at(i) == IF setup.started[i].service = "orchestrator"
                 THEN <<setup.started[i].config>> ELSE <<>>
        collect[i \in 0..Len(setup.started)] ==
            IF i = 0 THEN <<>> ELSE collect[i - 1] \o at(i)
    IN collect[Len(setup.started)]

\* The run configuration of a layer.
RunConfigOf(layer) == IF layer = "L3" THEN run_l3_config ELSE run_l2_config

\* C40: start_core_services runs the orchestrator in setup mode first and starts it
\* in run mode only after that succeeded, with the run configuration of the
\* configured layer: for an L3 setup the L3 configuration, which settles and keeps
\* its data on Starknet, for an L2 setup the L2 configuration.
C40_RunModeUsesConfiguredLayer ==
    LET starts == OrchestratorStarts
    IN /\ Len(starts) <= 2
       /\ Len(starts) >= 1 =>
              starts[1] = orchestrator_setup_config(setup.config.layer)
       /\ Len(starts) = 2 =>
              /\ starts[2].mode = "Run"
              /\ starts[2] = RunConfigOf(setup.config.layer)
              /\ setup.config.layer = "L3" =>
                     /\ starts[2].layer = "L3"
                     /\ starts[2].settle_on_starknet
                     /\ starts[2].da_on_starknet

\* An L3 setup ran the orchestrator in setup mode for L3 and then started it in run
\* mode with the L2 configuration: settlement and data availability on Ethereum only.
C40_Witness ==
    /\ setup.config.layer = "L3"
    /\ OrchestratorStarts = <<setup_l3_config, run_l2_config>>
    /\ ~OrchestratorStarts[2].settle_on_starknet
    /\ ~OrchestratorStarts[2].da_on_starknet
    /\ SetupSucceeded

====
